---- MODULE Spec2Model ----
(***************************************************************************)
(* Model of the census / election pre-processing pipeline.                 *)
(*                                                                         *)
(*   src/src/census/processed.py   Processed: merge, normalize, prune      *)
(*   src/src/census/interim.py     Interim: per-file standardisation       *)
(*   src/src/data.py               Data: folder helpers                    *)
(*                                                                         *)
(* A pandas DataFrame is a record [cols, data]: cols is the sequence of    *)
(* column names (names may repeat, as pandas allows), data the sequence of *)
(* rows, each row a sequence of cells aligned with cols.  A column name is *)
(* a sequence of one-character strings, so that Python's `tag in name`     *)
(* is a substring test here too.  A cell is an extended rational:          *)
(* a number n/d, NaN, +inf or -inf, as float64 division produces them.     *)
(***************************************************************************)
EXTENDS Integers, Sequences, FiniteSets, TLC

VARIABLES
    pc,                \* position in the stage being run
    error,             \* the exception that ended the stage, or "none"
    aggregation_level, \* Processed.aggregation_level / Interim.aggregation_level
    global_cols,       \* Processed.global_cols
    global_threshold,  \* Processed.global_threshold
    interim_files,     \* the interim/<level> folder: filename -> DataFrame
    filenames,         \* the listing _get_files_in_dir returned
    file_idx,          \* how many files of the listing the loop has consumed
    processed_data,    \* Processed.__processed_data
    input_data,        \* the frame the step under study started from
    fs_ops,            \* the file-system operations performed so far
    state,             \* Data.state
    cur_dir,           \* Data.cur_dir
    folders,           \* the directories that exist
    na_threshold,      \* Processed.na_threshold
    raw_files,         \* the raw tables of the election results, in reading order
    raw_idx,           \* how many raw files the pre-processing loop has consumed
    candidacy_pos,     \* Interim.candidacy_pos
    candidates,        \* Interim.candidates
    results_data,      \* Interim.__results_data
    locations_data,    \* Interim.__locations_data, as stored in locations_<api>.csv
    list_results_data, \* Interim.__list_results_data
    site,              \* the zip archives the page at Raw.url_data links to
    links,             \* Raw.__links
    raw_dir,           \* the entries of the raw dataset folder
    raw_before,        \* the entries of the raw dataset folder when the run started
    runs               \* how many times Raw.run has returned

vars == <<pc, error, aggregation_level, global_cols, global_threshold, interim_files, filenames,
          file_idx, processed_data, input_data, fs_ops, state, cur_dir,
          folders, na_threshold, raw_files, raw_idx, candidacy_pos, candidates,
          results_data, locations_data, list_results_data,
          site, links, raw_dir, raw_before, runs>>

\* the fields of Raw and the raw dataset folder, untouched by the other stages
raw_vars == <<site, links, raw_dir, raw_before, runs>>

\* a Raw object that is not running, its folder not yet made
RawIdle ==
    /\ site = <<>>
    /\ links = <<>>
    /\ raw_dir = {}
    /\ raw_before = {}
    /\ runs = 0

\* the fields of Data and the folder tree, untouched by the dataset steps
run_vars == <<state, cur_dir, folders, na_threshold>>

\* the fields of Interim, untouched by the steps of Processed
interim_vars == <<raw_files, raw_idx, candidacy_pos, candidates, results_data,
                  locations_data, list_results_data>>

\* the fields of an Interim object that is not running
InterimIdle ==
    /\ raw_files = <<>>
    /\ raw_idx = 0
    /\ candidacy_pos = "president"
    /\ candidates = <<>>
    /\ results_data = [cols |-> <<>>, data |-> <<>>]
    /\ locations_data = [cols |-> <<>>, data |-> <<>>]
    /\ list_results_data = <<>>

(***************************************************************************)
(* Cells                                                                   *)
(***************************************************************************)
Num(n) == [k |-> "num", n |-> n, d |-> 1]
NaN == [k |-> "nan", n |-> 0, d |-> 1]
PosInf == [k |-> "inf", n |-> 0, d |-> 1]
NegInf == [k |-> "ninf", n |-> 0, d |-> 1]

IsNum(v) == v.k = "num"
IsNaN(v) == v.k = "nan"

Abs(x) == IF x < 0 THEN -x ELSE x

RECURSIVE Gcd(_, _)
Gcd(a, b) == IF b = 0 THEN a ELSE Gcd(b, a % b)

\* the number n/d in lowest terms, d # 0
Rat(n, d) ==
    LET s == IF d < 0 THEN -1 ELSE 1
        g == Gcd(Abs(n), Abs(d))
    IN [k |-> "num", n |-> (s * n) \div g, d |-> (s * d) \div g]

\* float64 a / b: x/0 is +-inf for x # 0, 0/0 and inf/inf are NaN
FDiv(a, b) ==
    CASE IsNaN(a) \/ IsNaN(b) -> NaN
      [] IsNum(a) /\ IsNum(b) ->
            IF b.n = 0
            THEN (IF a.n = 0 THEN NaN ELSE IF a.n > 0 THEN PosInf ELSE NegInf)
            ELSE Rat(a.n * b.d, a.d * b.n)
      [] IsNum(a) /\ ~IsNum(b) -> Num(0)
      [] ~IsNum(a) /\ IsNum(b) ->
            IF b.n >= 0 THEN a ELSE (IF a = PosInf THEN NegInf ELSE PosInf)
      [] OTHER -> NaN

\* float64 a - b: inf - inf is NaN
FSub(a, b) ==
    CASE IsNaN(a) \/ IsNaN(b) -> NaN
      [] IsNum(a) /\ IsNum(b) -> Rat(a.n * b.d - b.n * a.d, a.d * b.d)
      [] IsNum(a) -> IF b = PosInf THEN NegInf ELSE PosInf
      [] IsNum(b) -> a
      [] OTHER -> IF a = b THEN NaN ELSE a

\* float64 a < b: False when either side is NaN
FLess(a, b) ==
    CASE IsNaN(a) \/ IsNaN(b) -> FALSE
      [] IsNum(a) /\ IsNum(b) -> a.n * b.d < b.n * a.d
      [] a = NegInf -> b # NegInf
      [] b = PosInf -> a # PosInf
      [] OTHER -> FALSE

\* Series.min() / Series.max(): NaN cells are skipped; NaN when none is left
SeriesMin(s) ==
    LET vals == {s[i] : i \in {j \in 1..Len(s) : ~IsNaN(s[j])}}
    IN IF vals = {} THEN NaN
       ELSE CHOOSE v \in vals : \A w \in vals : ~FLess(w, v)
SeriesMax(s) ==
    LET vals == {s[i] : i \in {j \in 1..Len(s) : ~IsNaN(s[j])}}
    IN IF vals = {} THEN NaN
       ELSE CHOOSE v \in vals : \A w \in vals : ~FLess(v, w)

(***************************************************************************)
(* Names                                                                   *)
(***************************************************************************)
GEO_TAG == <<"[", "G", "E", "O", "]">>
CENSUS_TAG == <<"[", "C", "E", "N", "S", "U", "S", "]">>
DELETE_TAG == <<"[", "D", "E", "L", "E", "T", "E", "]">>
BASIC_TAG == <<"_", "B", "A", "S", "I", "C", "O", "_">>
DOMICILE_TAGS ==
    << <<"_", "D", "O", "M", "I", "C", "I", "L", "I", "O", "0", "1", "_">>,
       <<"_", "E", "N", "T", "O", "R", "N", "O", "0", "1", "_">>,
       <<"_", "E", "N", "T", "O", "R", "N", "O", "0", "2", "_">> >>
PERSON_PT_TAG == <<"P", "E", "S", "S", "O", "A">>
DOMICILE_PT_TAG == <<"D", "O", "M", "I", "C", "I", "L", "I", "O">>
RESPONSIBLE_PT_TAG == <<"R", "E", "S", "P", "O", "N", "S", "A", "V", "E", "L">>

\* Python's `tag in name` on str: tag occurs as a contiguous substring.
Contains(tag, name) ==
    \E i \in 0..(Len(name) - Len(tag)) : SubSeq(name, i + 1, i + Len(tag)) = tag

AGGREGATION_LEVEL_MAP ==
    [x \in {"census tract", "neighborhood", "subdistrict", "district", "city",
            "micro region", "meso region", "uf", "rm", "region"} |->
       CASE x = "census tract" ->
              [level |-> 1, tag |-> <<"C", "E", "N", "S", "U", "S", "_", "T", "R", "A", "C", "T">>]
         [] x = "neighborhood" ->
              [level |-> 2, tag |-> <<"N", "E", "I", "G", "H", "B", "O", "R", "H", "O", "O", "D">>]
         [] x = "subdistrict" ->
              [level |-> 3, tag |-> <<"S", "U", "B", "D", "I", "S", "T", "R", "I", "C", "T">>]
         [] x = "district" ->
              [level |-> 4, tag |-> <<"D", "I", "S", "T", "R", "I", "C", "T">>]
         [] x = "city" ->
              [level |-> 5, tag |-> <<"C", "I", "T", "Y">>]
         [] x = "micro region" ->
              [level |-> 6, tag |-> <<"M", "I", "C", "R", "O", "_", "R", "E", "G", "I", "O", "N">>]
         [] x = "meso region" ->
              [level |-> 7, tag |-> <<"M", "E", "S", "O", "_", "R", "E", "G", "I", "O", "N">>]
         [] x = "uf" ->
              [level |-> 8, tag |-> <<"U", "F">>]
         [] x = "rm" ->
              [level |-> 9, tag |-> <<"R", "M">>]
         [] x = "region" ->
              [level |-> 10, tag |-> <<"R", "E", "G", "I", "O", "N">>]]

\* f"{GEO_TAG}_ID_{AGGREGATION_LEVEL_MAP[level]['tag']}"
get_aggregation_level_id_col(level) ==
    GEO_TAG \o <<"_", "I", "D", "_">> \o AGGREGATION_LEVEL_MAP[level].tag

(***************************************************************************)
(* DataFrames                                                              *)
(***************************************************************************)
EmptyFrame == [cols |-> <<>>, data |-> <<>>]

\* DataFrame.empty: any axis has length 0.
IsEmpty(df) == Len(df.cols) = 0 \/ Len(df.data) = 0

ColNames(df) == {df.cols[i] : i \in 1..Len(df.cols)}

\* position of the first column called name
ColIndex(df, name) == CHOOSE i \in 1..Len(df.cols) :
    df.cols[i] = name /\ \A j \in 1..(i - 1) : df.cols[j] # name

\* the cells of column name, one per row
Column(df, name) == [r \in 1..Len(df.data) |-> df.data[r][ColIndex(df, name)]]

\* the sequence s without the elements at the positions in drop
RECURSIVE DropAt(_, _)
DropAt(s, drop) ==
    IF s = <<>> THEN <<>>
    ELSE LET rest == DropAt(SubSeq(s, 1, Len(s) - 1), drop)
         IN IF Len(s) \in drop THEN rest ELSE Append(rest, s[Len(s)])

\* DataFrame.drop(columns at the given positions, axis=1)
DropColumnsAt(df, drop) ==
    [cols |-> DropAt(df.cols, drop),
     data |-> [r \in 1..Len(df.data) |-> DropAt(df.data[r], drop)]]

(***************************************************************************)
(* pandas.DataFrame.merge(right, on=key, how="outer", suffixes=(l, r))     *)
(***************************************************************************)
\* ascending sequence of a finite set of integers
RECURSIVE SortedSeq(_)
SortedSeq(S) ==
    IF S = {} THEN <<>>
    ELSE LET m == CHOOSE x \in S : \A y \in S : x <= y
         IN <<m>> \o SortedSeq(S \ {m})

\* the key values of a frame (keys are integer ids)
KeySet(df, on) == {df.data[r][ColIndex(df, on)].n : r \in 1..Len(df.data)}

\* the rows of df whose key is k, in row order
RowsWithKey(df, on, k) ==
    LET F[i \in 0..Len(df.data)] ==
            IF i = 0 THEN <<>>
            ELSE IF df.data[i][ColIndex(df, on)] = Num(k)
                 THEN Append(F[i - 1], i) ELSE F[i - 1]
    IN F[Len(df.data)]

\* the joined rows for one key value: every pairing of a left and a right row
\* with that key; a side without the key contributes NaN cells
JoinRowsForKey(left, right, on, k) ==
    LET li == ColIndex(left, on)
        ri == ColIndex(right, on)
        L == RowsWithKey(left, on, k)
        R == RowsWithKey(right, on, k)
    IN IF L # <<>> /\ R # <<>>
       THEN [p \in 1..(Len(L) * Len(R)) |->
               left.data[L[((p - 1) \div Len(R)) + 1]]
                 \o DropAt(right.data[R[((p - 1) % Len(R)) + 1]], {ri})]
       ELSE IF L # <<>>
       THEN [p \in 1..Len(L) |->
               left.data[L[p]] \o [j \in 1..(Len(right.cols) - 1) |-> NaN]]
       ELSE [p \in 1..Len(R) |->
               [j \in 1..Len(left.cols) |-> IF j = li THEN Num(k) ELSE NaN]
                 \o DropAt(right.data[R[p]], {ri})]

\* a plain concatenation of the two frames' rows under the merged header
\* (what pd.concat would give): the keys of both sides are not matched
ConcatRows(left, right, on, keys) ==
    LET ri == ColIndex(right, on)
        li == ColIndex(left, on)
    IN [p \in 1..Len(left.data) |->
          left.data[p] \o [j \in 1..(Len(right.cols) - 1) |-> NaN]]
       \o [p \in 1..Len(right.data) |->
          [j \in 1..Len(left.cols) |->
              IF j = li THEN right.data[p][ri] ELSE NaN]
            \o DropAt(right.data[p], {ri})]

RECURSIVE JoinRows(_, _, _, _)
JoinRows(left, right, on, keys) ==
    IF keys = <<>> THEN <<>>
    ELSE JoinRowsForKey(left, right, on, Head(keys))
           \o JoinRows(left, right, on, Tail(keys))

\* the merged header: a non-key name carried by both sides gets the side's
\* suffix; left columns first, then the right columns without the key
MergedCols(left, right, on, lsuffix, rsuffix) ==
    LET overlap == (ColNames(left) \cap ColNames(right)) \ {on}
        ri == ColIndex(right, on)
        rc == DropAt(right.cols, {ri})
    IN [i \in 1..Len(left.cols) |->
          IF left.cols[i] \in overlap THEN left.cols[i] \o lsuffix
          ELSE left.cols[i]]
       \o [i \in 1..Len(rc) |->
          IF rc[i] \in overlap THEN rc[i] \o rsuffix ELSE rc[i]]

\* how="outer" sorts the union of the keys
OuterMerge(left, right, on, lsuffix, rsuffix) ==
    [cols |-> MergedCols(left, right, on, lsuffix, rsuffix),
     data |-> JoinRows(left, right, on,
                       SortedSeq(KeySet(left, on) \cup KeySet(right, on)))]

(***************************************************************************)
(* The interim folder of one aggregation level                             *)
(***************************************************************************)
\* largest geographic id an interim file may hold
MaxKey == 2

FileNames == {"a.csv", "b.csv", "c.csv"}

\* position of a filename in lexicographic order
FileRank(f) == CASE f = "a.csv" -> 1 [] f = "b.csv" -> 2 [] f = "c.csv" -> 3

\* the measure columns an interim file may carry beside the key
MeasureCols == << <<"x">>, <<"y">> >>

\* the cell file f holds in its i-th measure column for key k: files that
\* define the same column disagree on its values
CellOf(f, i, k) == Num(100 * FileRank(f) + 10 * i + k)

\* an interim file: the key column of the level, then the measure columns at
\* the positions in cs; one row per key of ks, ascending (a groupby result)
InterimFrame(f, level, ks, cs) ==
    LET keys == SortedSeq(ks)
        ms == SortedSeq(cs)
    IN [cols |-> <<get_aggregation_level_id_col(level)>>
                   \o [i \in 1..Len(ms) |-> MeasureCols[ms[i]]],
        data |-> [r \in 1..Len(keys) |->
                    <<Num(keys[r])>>
                      \o [i \in 1..Len(ms) |-> CellOf(f, ms[i], keys[r])]]]

InterimFrames(f, level) ==
    {InterimFrame(f, level, ks, cs) :
        ks \in SUBSET (1..MaxKey),
        cs \in (SUBSET (1..Len(MeasureCols))) \ {{}}}

\* every order in which a set of names can be listed
Orders(S) ==
    {s \in [1..Cardinality(S) -> S] : \A i, j \in 1..Cardinality(S) :
        i # j => s[i] # s[j]}

\* sorted(listdir(...)): the names in lexicographic order
LexOrder(S) == CHOOSE s \in Orders(S) :
    \A i, j \in 1..Len(s) : i < j => FileRank(s[i]) < FileRank(s[j])

(***************************************************************************)
(* Processed._merge_data                                                   *)
(***************************************************************************)
\* one pass of the loop body on the accumulated frame
merge_one(acc, interim_data, level) ==
    IF ~IsEmpty(acc)
    THEN OuterMerge(acc, interim_data, get_aggregation_level_id_col(level),
                    <<>>, DELETE_TAG)
    ELSE interim_data

\* Processed._drop_duplicated_col_from_merge
drop_duplicated_col_from_merge(df) ==
    DropColumnsAt(df, {i \in 1..Len(df.cols) : Contains(DELETE_TAG, df.cols[i])})

\* the whole of _merge_data on a given listing
RECURSIVE merge_loop(_, _, _, _)
merge_loop(acc, files, order, level) ==
    IF order = <<>> THEN acc
    ELSE merge_loop(merge_one(acc, files[Head(order)], level), files,
                    Tail(order), level)

merge_data(files, order, level) ==
    drop_duplicated_col_from_merge(merge_loop(EmptyFrame, files, order, level))

\* os.listdir returns the names in arbitrary order; _get_files_in_dir keeps it
ListFiles ==
    /\ pc = "start"
    /\ filenames' \in Orders(DOMAIN interim_files)
    /\ file_idx' = 0
    /\ pc' = "merging"
    /\ UNCHANGED <<raw_vars, interim_vars, error, aggregation_level, global_cols, global_threshold, interim_files,
                   processed_data, input_data, fs_ops, run_vars>>

\* one iteration of the for loop: read the next file and merge it in
MergeFile ==
    /\ pc = "merging"
    /\ file_idx < Len(filenames)
    /\ processed_data' = merge_one(processed_data,
                                   interim_files[filenames[file_idx + 1]],
                                   aggregation_level)
    /\ file_idx' = file_idx + 1
    /\ UNCHANGED <<raw_vars, interim_vars, pc, error, aggregation_level, global_cols, global_threshold, interim_files,
                   filenames, input_data, fs_ops, run_vars>>

\* after the loop: self._drop_duplicated_col_from_merge()
DropDeleteCols ==
    /\ pc = "merging"
    /\ file_idx = Len(filenames)
    /\ processed_data' = drop_duplicated_col_from_merge(processed_data)
    /\ pc' = "merged"
    /\ UNCHANGED <<raw_vars, interim_vars, error, aggregation_level, global_cols, global_threshold, interim_files,
                   filenames, file_idx, input_data, fs_ops, run_vars>>

InitMerge ==
    /\ RawIdle
    /\ pc = "start"
    /\ error = "none"
    /\ aggregation_level = "city"
    /\ global_cols = 1
    /\ global_threshold = Num(1)
    /\ \E S \in (SUBSET FileNames) \ {{}} :
          interim_files \in [S -> UNION {InterimFrames(f, "city") : f \in S}]
          /\ \A f \in S : interim_files[f] \in InterimFrames(f, "city")
    /\ filenames = <<>>
    /\ file_idx = 0
    /\ processed_data = EmptyFrame
    /\ input_data = EmptyFrame
    /\ fs_ops = <<>>
    /\ InterimIdle
    /\ state = "processed"
    /\ cur_dir = <<>>
    /\ folders = {}
    /\ na_threshold = 0

NextMerge == ListFiles \/ MergeFile \/ DropDeleteCols

SpecMerge == InitMerge /\ [][NextMerge]_vars

(***************************************************************************)
(* Claims on the merge                                                     *)
(***************************************************************************)
KeyCol == get_aggregation_level_id_col(aggregation_level)

\* the keys of the rows of the merged frame, in row order
MergedKeys == [r \in 1..Len(processed_data.data) |->
                  processed_data.data[r][ColIndex(processed_data, KeyCol)]]

AllFileKeys == UNION {KeySet(interim_files[f], KeyCol) : f \in DOMAIN interim_files}
AllFileCols == UNION {ColNames(interim_files[f]) : f \in DOMAIN interim_files}

\* the files that define column c, and the first of them in processing order
Definers(c) == {f \in DOMAIN interim_files : c \in ColNames(interim_files[f])}
FirstDefiner(c) ==
    filenames[CHOOSE i \in 1..Len(filenames) :
        /\ filenames[i] \in Definers(c)
        /\ \A j \in 1..(i - 1) : filenames[j] \notin Definers(c)]
Colliding == {c \in AllFileCols \ {KeyCol} : Cardinality(Definers(c)) >= 2}

\* the cell of column c in the row of df whose key is k
CellAt(df, k, c) ==
    LET r == CHOOSE r \in 1..Len(df.data) :
                 df.data[r][ColIndex(df, KeyCol)] = Num(k)
    IN df.data[r][ColIndex(df, c)]

\* C1: after _merge_data, the keys of the merged dataset are exactly the union
\* of the keys of all interim files, and no key has two rows.
C1_OuterJoinKeys ==
    pc = "merged" =>
        /\ {MergedKeys[r].n : r \in 1..Len(MergedKeys)} = AllFileKeys
        /\ \A r \in 1..Len(MergedKeys) : IsNum(MergedKeys[r])
        /\ \A r, s \in 1..Len(MergedKeys) : r # s => MergedKeys[r] # MergedKeys[s]

\* two files with overlapping but different key sets were merged
C1_Witness ==
    /\ pc = "merged"
    /\ Len(processed_data.data) = 2
    /\ \E f, g \in DOMAIN interim_files :
          /\ f # g
          /\ KeySet(interim_files[f], KeyCol) = {1, 2}
          /\ KeySet(interim_files[g], KeyCol) = {2}

\* C2: a column defined by two or more files appears once in the merged dataset
\* with the values of the first file, in processing order, that defined it (NaN
\* for a key that file lacks), and no [DELETE] column remains.
C2_FirstSeenWins ==
    pc = "merged" =>
        /\ \A i \in 1..Len(processed_data.cols) :
              ~Contains(DELETE_TAG, processed_data.cols[i])
        /\ \A c \in Colliding :
              /\ Cardinality({i \in 1..Len(processed_data.cols) :
                                 processed_data.cols[i] = c}) = 1
              /\ \A r \in 1..Len(processed_data.data) :
                    LET k == MergedKeys[r].n
                        first == interim_files[FirstDefiner(c)]
                    IN processed_data.data[r][ColIndex(processed_data, c)] =
                          IF k \in KeySet(first, KeyCol)
                          THEN CellAt(first, k, c) ELSE NaN

\* C3: the set of keys and the set of column names of the merged dataset do not
\* depend on the order in which the files are processed, and the column set is
\* the union of the files' column names.
C3_OrderIndependentSets ==
    pc = "merged" =>
        /\ ColNames(processed_data) = AllFileCols
        /\ \A o \in Orders(DOMAIN interim_files) :
              LET other == merge_data(interim_files, o, aggregation_level)
              IN /\ ColNames(other) = ColNames(processed_data)
                 /\ KeySet(other, KeyCol) = KeySet(processed_data, KeyCol)

\* C4: the files are merged in lexicographic filename order whatever the
\* listing, so every colliding column has the same values on every run.
C4_DeterministicOrder ==
    pc = "merged" =>
        /\ filenames = LexOrder(DOMAIN interim_files)
        /\ \A o \in Orders(DOMAIN interim_files) :
              LET other == merge_data(interim_files, o, aggregation_level)
              IN \A c \in Colliding \cap ColNames(processed_data) \cap ColNames(other) :
                    \A k \in KeySet(processed_data, KeyCol) \cap KeySet(other, KeyCol) :
                       CellAt(processed_data, k, c) = CellAt(other, k, c)

\* first-seen-wins holds whenever no interim file is empty (header only)
FirstSeenWinsWithoutEmptyFiles ==
    (pc = "merged" /\ \A f \in DOMAIN interim_files : ~IsEmpty(interim_files[f]))
        => C2_FirstSeenWins

(***************************************************************************)
(* Processed._remove_uncessary_geo_cols                                    *)
(***************************************************************************)
Levels == DOMAIN AGGREGATION_LEVEL_MAP

\* the tags of the levels coarser than or equal to the active one
keep_tags(level) ==
    {AGGREGATION_LEVEL_MAP[aggr].tag : aggr \in
        {a \in Levels : AGGREGATION_LEVEL_MAP[a].level
                           >= AGGREGATION_LEVEL_MAP[level].level}}

\* a [GEO] column is kept when its name contains the tag of a kept level
geo_col_kept(c, level) == \E tag \in keep_tags(level) : Contains(tag, c)

remove_uncessary_geo_cols(df, level) ==
    LET geo == {i \in 1..Len(df.cols) : Contains(GEO_TAG, df.cols[i])}
        keep_cols == {df.cols[i] : i \in {j \in geo : geo_col_kept(df.cols[j], level)}}
        drop_cols == {df.cols[i] : i \in {j \in geo : df.cols[j] \notin keep_cols}}
    IN DropColumnsAt(df, {i \in 1..Len(df.cols) : df.cols[i] \in drop_cols})

\* the id column and the label column of a level
GeoIdCol(aggr) == GEO_TAG \o <<"_", "I", "D", "_">> \o AGGREGATION_LEVEL_MAP[aggr].tag
GeoLabelCol(aggr) == GEO_TAG \o <<"_">> \o AGGREGATION_LEVEL_MAP[aggr].tag
GeoColsOf(aggr) == {GeoIdCol(aggr), GeoLabelCol(aggr)}

LevelSeq == <<"census tract", "neighborhood", "subdistrict", "district", "city",
              "micro region", "meso region", "uf", "rm", "region">>

\* every geographic column a merged census dataset may carry, finest first
GeoPool == [i \in 1..(2 * Len(LevelSeq)) |->
               IF i % 2 = 1 THEN GeoIdCol(LevelSeq[(i + 1) \div 2])
               ELSE GeoLabelCol(LevelSeq[i \div 2])]

\* how many geographic columns besides the key a modelled dataset carries
MaxGeoCols == 2

SampleCensusCol == CENSUS_TAG \o <<"_", "V", "0", "0", "1">>

\* a one-row dataset: the key of the level, the pool columns at the positions
\* in ps, and one census measure
GeoFrame(level, ps) ==
    LET sel == SortedSeq(ps)
        cols == <<GeoIdCol(level)>> \o [i \in 1..Len(sel) |-> GeoPool[sel[i]]]
                  \o <<SampleCensusCol>>
    IN [cols |-> cols, data |-> <<[i \in 1..Len(cols) |-> Num(1)]>>]

RemoveGeoCols ==
    /\ pc = "deduplicated"
    /\ aggregation_level \in Levels
    /\ processed_data' = remove_uncessary_geo_cols(processed_data, aggregation_level)
    /\ pc' = "geo_pruned"
    /\ UNCHANGED <<raw_vars, interim_vars, error, aggregation_level, global_cols, global_threshold, interim_files,
                   filenames, file_idx, input_data, fs_ops, run_vars>>

InitGeo ==
    /\ RawIdle
    /\ pc = "deduplicated"
    /\ error = "none"
    /\ aggregation_level \in Levels
    /\ global_cols = 1
    /\ global_threshold = Num(1)
    /\ interim_files = <<>>
    /\ filenames = <<>>
    /\ file_idx = 0
    /\ \E ps \in SUBSET (1..Len(GeoPool)) :
          /\ Cardinality(ps) <= MaxGeoCols
          /\ \A i \in ps : GeoPool[i] # GeoIdCol(aggregation_level)
          /\ input_data = GeoFrame(aggregation_level, ps)
    /\ processed_data = input_data
    /\ fs_ops = <<>>
    /\ InterimIdle
    /\ state = "processed"
    /\ cur_dir = <<>>
    /\ folders = {}
    /\ na_threshold = 0

NextGeo == RemoveGeoCols

SpecGeo == InitGeo /\ [][NextGeo]_vars

\* C5: after _remove_uncessary_geo_cols at level L, every [GEO] column of a
\* level finer than L is gone and every [GEO] column of a level coarser than
\* or equal to L is still there.
C5_GeoColsMatchLevel ==
    pc = "geo_pruned" =>
        \A aggr \in Levels : \A c \in GeoColsOf(aggr) \cap ColNames(input_data) :
            IF AGGREGATION_LEVEL_MAP[aggr].level
                  < AGGREGATION_LEVEL_MAP[aggregation_level].level
            THEN c \notin ColNames(processed_data)
            ELSE c \in ColNames(processed_data)

\* the levels whose tag is not part of a coarser level's tag are pruned as
\* claimed: only SUBDISTRICT, MICRO_REGION and MESO_REGION columns escape
GeoColsMatchLevelExceptSubstringTags ==
    pc = "geo_pruned" =>
        \A aggr \in Levels \ {"subdistrict", "micro region", "meso region"} :
          \A c \in GeoColsOf(aggr) \cap ColNames(input_data) :
            IF AGGREGATION_LEVEL_MAP[aggr].level
                  < AGGREGATION_LEVEL_MAP[aggregation_level].level
            THEN c \notin ColNames(processed_data)
            ELSE c \in ColNames(processed_data)

(***************************************************************************)
(* Processed._normalize_data                                               *)
(***************************************************************************)
TOTAL_COLS ==
    [person |-> <<"[", "C", "E", "N", "S", "U", "S", "]", "_", "D", "O", "M", "I", "C", "I", "L", "I", "O", "0", "2", "_", "V", "0", "0", "2">>,
     domicile |-> <<"[", "C", "E", "N", "S", "U", "S", "]", "_", "D", "O", "M", "I", "C", "I", "L", "I", "O", "0", "1", "_", "V", "0", "0", "1">>,
     income_person |-> <<"[", "C", "E", "N", "S", "U", "S", "]", "_", "P", "E", "S", "S", "O", "A", "R", "E", "N", "D", "A", "_", "V", "0", "2", "2">>,
     income_domicile |-> <<"[", "C", "E", "N", "S", "U", "S", "]", "_", "D", "O", "M", "I", "C", "I", "L", "I", "O", "R", "E", "N", "D", "A", "_", "V", "0", "0", "2">>]

\* list(TOTAL_COLS.values())
TotalColsList == <<TOTAL_COLS.person, TOTAL_COLS.domicile,
                   TOTAL_COLS.income_person, TOTAL_COLS.income_domicile>>

SeqToSet(s) == {s[i] : i \in 1..Len(s)}

\* Processed._get_col_by_tag
get_col_by_tag(df, tag) ==
    LET Has(c) == Contains(tag, c) IN SelectSeq(df.cols, Has)

\* Processed._check_income_col: some value of col exceeds the population
\* total and some value exceeds the domicile total
check_income_col(df, col) ==
    LET v == Column(df, col)
        person == Column(df, TOTAL_COLS.person)
        domicile == Column(df, TOTAL_COLS.domicile)
    IN /\ \E r \in 1..Len(df.data) : FLess(person[r], v[r])
       /\ \E r \in 1..Len(df.data) : FLess(domicile[r], v[r])

\* Processed._get_income_cols
get_income_cols(df) ==
    LET Income(c) == /\ Contains(CENSUS_TAG, c)
                     /\ check_income_col(df, c)
                     /\ ~Contains(BASIC_TAG, c)
    IN SelectSeq(df.cols, Income)

\* Processed._get_domicile_cols
get_domicile_cols(df) ==
    LET Dom(c) == \E i \in 1..Len(DOMICILE_TAGS) : Contains(DOMICILE_TAGS[i], c)
    IN SelectSeq(df.cols, Dom)

\* Processed._separate_cols_by_description
separate_cols_by_description(df) ==
    LET basic == get_col_by_tag(df, BASIC_TAG)
        geo == get_col_by_tag(df, GEO_TAG)
        income == get_income_cols(df)
        IncPerson(c) == Contains(PERSON_PT_TAG, c) \/ Contains(RESPONSIBLE_PT_TAG, c)
        IncDomicile(c) == Contains(DOMICILE_PT_TAG, c)
        domicile == get_domicile_cols(df)
        Person(c) == c \notin SeqToSet(income \o domicile \o basic \o geo)
    IN [income_person |-> SelectSeq(income, IncPerson),
        income_domicile |-> SelectSeq(income, IncDomicile),
        domicile |-> domicile,
        person |-> SelectSeq(df.cols, Person)]

\* the order in which the dict of groups is iterated
GroupOrder == <<"income_person", "income_domicile", "domicile", "person">>

\* the row-wise quotient of a cell by its row's total
ratio(v, total) == FDiv(v, total)

\* Processed._normalize_by_total
normalize_by_total(df, cols, total_col) ==
    LET ti == ColIndex(df, total_col)
    IN [cols |-> df.cols,
        data |-> [r \in 1..Len(df.data) |->
                    [i \in 1..Len(df.cols) |->
                        IF df.cols[i] \in SeqToSet(cols)
                        THEN ratio(df.data[r][i], df.data[r][ti])
                        ELSE df.data[r][i]]]]

\* the for loop of _normalize_data over the groups, in dict order
RECURSIVE normalize_groups(_, _, _)
normalize_groups(df, groups, order) ==
    IF order = <<>> THEN df
    ELSE normalize_groups(
            normalize_by_total(df, groups[Head(order)], TOTAL_COLS[Head(order)]),
            groups, Tail(order))

\* (x - min) / (max - min) of one cell
min_max_scale(v, mn, mx) == FDiv(FSub(v, mn), FSub(mx, mn))

\* Processed._normalize_by_mim_max
normalize_by_mim_max(df, cols) ==
    [cols |-> df.cols,
     data |-> [r \in 1..Len(df.data) |->
                 [i \in 1..Len(df.cols) |->
                     IF df.cols[i] \in SeqToSet(cols)
                     THEN LET col == [q \in 1..Len(df.data) |-> df.data[q][i]]
                          IN min_max_scale(df.data[r][i], SeriesMin(col), SeriesMax(col))
                     ELSE df.data[r][i]]]]

\* a pruning that drops a census column as soon as one value exceeds the
\* threshold
remove_cols_above_somewhere(df, threshold) ==
    DropColumnsAt(df,
        {i \in 1..Len(df.cols) :
            /\ Contains(CENSUS_TAG, df.cols[i])
            /\ \E r \in 1..Len(df.data) : FLess(threshold, df.data[r][i])})

\* Processed._remove_global_cols: drop the census columns whose every value
\* exceeds the threshold
remove_global_cols(df, threshold) ==
    DropColumnsAt(df,
        {i \in 1..Len(df.cols) :
            /\ Contains(CENSUS_TAG, df.cols[i])
            /\ \A r \in 1..Len(df.data) : FLess(threshold, df.data[r][i])})

\* the columns _normalize_data scales or drops
min_max_cols(df) == get_col_by_tag(df, BASIC_TAG) \o TotalColsList

\* those of the groups formed on the converted dataset that hold column c
groups_of(groups, c) == {g \in DOMAIN groups : c \in SeqToSet(groups[g])}

\* the cell of column c in row r is pd.NA after the by-total loop: it was
\* missing in df0, the converted dataset, or a total it was divided by was.
\* (0/0 is a NaN, not pd.NA.)
is_na(df0, groups, c, r) ==
    \/ IsNaN(Column(df0, c)[r])
    \/ \E g \in groups_of(groups, c) : IsNaN(Column(df0, TOTAL_COLS[g])[r])

\* all(df[c] > threshold) in _remove_global_cols, Python's all() over the
\* cells in row order: it stops at the first False, and raises TypeError
\* when it meets pd.NA before that (bool(pd.NA) is ambiguous)
all_raises(df, df0, groups, c, threshold) ==
    \E r \in 1..Len(df.data) :
       /\ is_na(df0, groups, c, r)
       /\ \A q \in 1..(r - 1) :
             ~is_na(df0, groups, c, q) /\ FLess(threshold, Column(df, c)[q])

\* the census columns _remove_global_cols tests
tested_cols(df) ==
    {c \in ColNames(df) : Contains(CENSUS_TAG, c) /\ c \notin SeqToSet(min_max_cols(df))}

\* the tail of _normalize_data, after the by-total loop
normalize_global(df, with_global, threshold) ==
    IF with_global = 1
    THEN normalize_by_mim_max(df, min_max_cols(df))
    ELSE remove_global_cols(
            DropColumnsAt(df, {i \in 1..Len(df.cols) :
                                  df.cols[i] \in SeqToSet(min_max_cols(df))}),
            threshold)

\* _normalize_data up to the end of the by-total loop
NormalizeByTotal ==
    /\ pc = "converted"
    /\ SeqToSet(TotalColsList) \subseteq ColNames(processed_data)
    /\ processed_data' = normalize_groups(processed_data,
                             separate_cols_by_description(processed_data),
                             GroupOrder)
    /\ pc' = "ratios"
    /\ UNCHANGED <<raw_vars, interim_vars, error, aggregation_level, global_cols, global_threshold, interim_files,
                   filenames, file_idx, input_data, fs_ops, run_vars>>

\* the rest of _normalize_data: min-max scaling, or the global-column pruning.
\* A column the by-total loop divided is float64 (missing cells NaN, compared
\* False) or nullable Float64 (missing cells pd.NA), depending on the pandas
\* release; a column it did not divide is nullable since convert_dtypes.
NormalizeGlobal ==
    /\ pc = "ratios"
    /\ global_cols = 0 =>
          LET groups == separate_cols_by_description(input_data)
          IN \A c \in tested_cols(processed_data) :
                groups_of(groups, c) = {} =>
                   ~all_raises(processed_data, input_data, groups, c, global_threshold)
    /\ processed_data' = normalize_global(processed_data, global_cols, global_threshold)
    /\ pc' = "normalized"
    /\ UNCHANGED <<raw_vars, interim_vars, error, aggregation_level, global_cols, global_threshold, interim_files,
                   filenames, file_idx, input_data, fs_ops, run_vars>>

\* the global-column pruning of _normalize_data on a column whose missing
\* cell comes before any cell at or below the threshold: all() raises, after
\* the _BASICO_ and total columns were dropped
RemoveGlobalColsTypeError ==
    /\ pc = "ratios"
    /\ global_cols = 0
    /\ LET groups == separate_cols_by_description(input_data)
       IN \E c \in tested_cols(processed_data) :
             all_raises(processed_data, input_data, groups, c, global_threshold)
    /\ processed_data' =
          DropColumnsAt(processed_data,
             {i \in 1..Len(processed_data.cols) :
                 processed_data.cols[i] \in SeqToSet(min_max_cols(processed_data))})
    /\ error' = "TypeError"
    /\ pc' = "failed"
    /\ UNCHANGED <<raw_vars, interim_vars, aggregation_level, global_cols, global_threshold, interim_files,
                   filenames, file_idx, input_data, fs_ops, run_vars>>

\* largest count a cell of a merged census dataset holds
MaxCount == 2

TwoRows == {1, 2}

\* a count, or a cell left missing by the outer merge
CountCells == {NaN} \cup {Num(n) : n \in 0..MaxCount}
CountVectors == [TwoRows -> CountCells]

\* an amount of money: larger than any count
IncomeVectors == {[r \in TwoRows |-> Num(1)], [r \in TwoRows |-> Num(MaxCount + 1)]}

\* the census columns a dataset may carry beside the four totals
ExtraCols ==
    << <<"[", "C", "E", "N", "S", "U", "S", "]", "_", "B", "A", "S", "I", "C", "O", "_", "V", "0", "0", "3">>,
       <<"[", "C", "E", "N", "S", "U", "S", "]", "_", "P", "E", "S", "S", "O", "A", "0", "1", "_", "V", "0", "0", "4">>,
       <<"[", "C", "E", "N", "S", "U", "S", "]", "_", "D", "O", "M", "I", "C", "I", "L", "I", "O", "0", "1", "_", "V", "0", "0", "5">>,
       <<"[", "C", "E", "N", "S", "U", "S", "]", "_", "R", "E", "S", "P", "O", "N", "S", "A", "V", "E", "L", "R", "E", "N", "D", "A", "_", "V", "0", "0", "6">>,
       <<"[", "C", "E", "N", "S", "U", "S", "]", "_", "E", "N", "T", "O", "R", "N", "O", "0", "1", "_", "V", "0", "0", "7">>,
       <<"[", "C", "E", "N", "S", "U", "S", "]", "_", "E", "N", "T", "O", "R", "N", "O", "0", "3", "_", "V", "0", "0", "8">>,
       <<"[", "C", "E", "N", "S", "U", "S", "]", "_", "P", "E", "S", "S", "O", "A", "D", "O", "M", "I", "C", "I", "L", "I", "O", "_", "V", "0", "0", "9">> >>

\* a two-row merged dataset at city level: key, the four totals, extra columns
NormFrame(person, domicile, inc_person, inc_domicile, extra, extra_cells) ==
    [cols |-> <<get_aggregation_level_id_col("city")>> \o TotalColsList
                \o [i \in 1..Len(extra) |-> ExtraCols[extra[i]]],
     data |-> [r \in TwoRows |->
                 <<Num(r), person[r], domicile[r], inc_person[r], inc_domicile[r]>>
                   \o [i \in 1..Len(extra) |-> extra_cells[r]]]]

NormFrames ==
    {NormFrame(p, d, ip, idm, e, ec) :
        p \in CountVectors, d \in [TwoRows -> {Num(1), Num(2)}],
        ip \in IncomeVectors, idm \in IncomeVectors,
        e \in {<<>>}, ec \in {[r \in TwoRows |-> NaN]}}
    \cup
    {NormFrame(p, d, ip, idm, <<x>>, ec) :
        p \in CountVectors, d \in [TwoRows -> {Num(1), Num(2)}],
        ip \in IncomeVectors, idm \in IncomeVectors,
        x \in 1..Len(ExtraCols), ec \in CountVectors}

InitNorm ==
    /\ RawIdle
    /\ pc = "converted"
    /\ error = "none"
    /\ aggregation_level = "city"
    /\ global_cols \in {0, 1}
    /\ global_threshold = Rat(1, 2)
    /\ interim_files = <<>>
    /\ filenames = <<>>
    /\ file_idx = 0
    /\ input_data \in NormFrames
    /\ processed_data = input_data
    /\ fs_ops = <<>>
    /\ InterimIdle
    /\ state = "processed"
    /\ cur_dir = <<>>
    /\ folders = {}
    /\ na_threshold = 0

NextNorm == NormalizeByTotal \/ NormalizeGlobal \/ RemoveGlobalColsTypeError

SpecNorm == InitNorm /\ [][NextNorm]_vars

\* merged datasets for the pruning: the domicile total the same in both
\* rows, the income totals larger than any count, one extra column or two
PruneFrames ==
    {NormFrame(p, [r \in TwoRows |-> Num(d)], ip, ip, e, ec) :
        p \in CountVectors, d \in {1, 2},
        ip \in {[r \in TwoRows |-> Num(MaxCount + 1)]},
        e \in {<<x>> : x \in 1..Len(ExtraCols)} \cup {<<2, 3>>},
        ec \in CountVectors}

InitPrune ==
    /\ RawIdle
    /\ pc = "converted"
    /\ error = "none"
    /\ aggregation_level = "city"
    /\ global_cols \in {0, 1}
    /\ global_threshold = Rat(1, 2)
    /\ interim_files = <<>>
    /\ filenames = <<>>
    /\ file_idx = 0
    /\ input_data \in PruneFrames
    /\ processed_data = input_data
    /\ fs_ops = <<>>
    /\ InterimIdle
    /\ state = "processed"
    /\ cur_dir = <<>>
    /\ folders = {}
    /\ na_threshold = 0

SpecPrune == InitPrune /\ [][NextNorm]_vars

(***************************************************************************)
(* Claims on the normalization                                             *)
(***************************************************************************)
InputGroups == separate_cols_by_description(input_data)

\* the dataset as the by-total loop leaves it
AfterRatios == normalize_groups(input_data, InputGroups, GroupOrder)

ZeroOrMissing(v) == IsNaN(v) \/ (IsNum(v) /\ v.n = 0)

\* C6: after the by-total loop, a row whose total is zero or missing is NaN in
\* every column of the group, whatever the numerator, no error is raised, and
\* a row with a nonzero total holds value/total.
C6_ZeroTotalGivesNaN ==
    pc = "ratios" =>
        /\ error = "none"
        /\ \A g \in DOMAIN InputGroups : \A c \in SeqToSet(InputGroups[g]) :
              \A r \in 1..Len(input_data.data) :
                 LET total == Column(input_data, TOTAL_COLS[g])[r]
                     v == Column(input_data, c)[r]
                 IN Column(processed_data, c)[r] =
                       IF ZeroOrMissing(total) THEN NaN ELSE Rat(v.n * total.d, v.d * total.n)

\* the groups a column was put in
GroupsOf(c) == {g \in DOMAIN InputGroups : c \in SeqToSet(InputGroups[g])}

\* for a column of exactly one group: a row with a nonzero total holds
\* value/total; a zero total gives NaN for a zero numerator and +inf for a
\* positive one; a missing total or numerator gives NaN
RatioOfNonzeroTotal ==
    pc = "ratios" =>
        \A c \in ColNames(input_data) : \A g \in GroupsOf(c) :
           Cardinality(GroupsOf(c)) = 1 =>
              \A r \in 1..Len(input_data.data) :
                 LET total == Column(input_data, TOTAL_COLS[g])[r]
                     v == Column(input_data, c)[r]
                 IN Column(processed_data, c)[r] =
                       IF IsNaN(total) \/ IsNaN(v) THEN NaN
                       ELSE IF total.n # 0 THEN Rat(v.n * total.d, v.d * total.n)
                       ELSE IF v.n = 0 THEN NaN ELSE PosInf

InUnitInterval(v) == IsNum(v) /\ 0 <= v.n /\ v.n <= v.d

\* C7: with global_cols on, every min-max-scaled column (the _BASICO_ columns
\* and the four total columns) lies in [0, 1] after _normalize_data, with the
\* minimum of the column at 0 and its maximum at 1.
C7_MinMaxInUnitInterval ==
    (pc = "normalized" /\ global_cols = 1) =>
        \A c \in SeqToSet(min_max_cols(input_data)) :
           LET before == Column(AfterRatios, c)
               after == Column(processed_data, c)
           IN \A r \in 1..Len(after) :
                 /\ InUnitInterval(after[r])
                 /\ before[r] = SeriesMin(before) => after[r] = Num(0)
                 /\ before[r] = SeriesMax(before) => after[r] = Num(1)

\* a scaled column that has no missing cell and two different values does lie
\* in [0, 1] with its minimum at 0 and its maximum at 1
MinMaxOfVaryingColumn ==
    (pc = "normalized" /\ global_cols = 1) =>
        \A c \in SeqToSet(min_max_cols(input_data)) :
           LET before == Column(AfterRatios, c)
               after == Column(processed_data, c)
           IN (/\ \A r \in 1..Len(before) : IsNum(before[r])
               /\ SeriesMin(before) # SeriesMax(before))
              => \A r \in 1..Len(after) :
                    /\ InUnitInterval(after[r])
                    /\ before[r] = SeriesMin(before) => after[r] = Num(0)
                    /\ before[r] = SeriesMax(before) => after[r] = Num(1)

\* the person and domicile totals are divided by themselves before the
\* scaling, so min-max turns them into NaN in every row
TotalsScaleToNaN ==
    (pc = "normalized" /\ global_cols = 1) =>
        \A c \in {TOTAL_COLS.person, TOTAL_COLS.domicile} :
           \A r \in 1..Len(processed_data.data) : IsNaN(Column(processed_data, c)[r])

(***************************************************************************)
(* Data: the folder tree                                                   *)
(***************************************************************************)
\* a path is the sequence of its components
root_path == <<"root">>
region == "Brazil"
org == "IBGE"
year == "2010"
data_name == "census"

\* Data._get_data_name_folders_path
get_data_name_folders_path(st) == root_path \o <<region, org, year, st, data_name>>

\* a directory and all its ancestors
Prefixes(path) == {SubSeq(path, 1, i) : i \in 1..Len(path)}

\* Data._mkdir, repeated: one mkdir per component appended to the start
\* directory; FileExistsError is swallowed, so every call is made
MkdirOps(start, names) ==
    [i \in 1..Len(names) |-> [op |-> "mkdir", path |-> start \o SubSeq(names, 1, i)]]

(***************************************************************************)
(* Processed: the steps of run() not modelled above                        *)
(***************************************************************************)
NonNaCount(cells) == Cardinality({i \in 1..Len(cells) : ~IsNaN(cells[i])})

\* Processed._drop_cols_rows_na_all: both thresholds are computed first; a row
\* is kept with at least threshold_na_row present cells, then a column with at
\* least threshold_na_col present cells (thresh takes precedence over how)
drop_cols_rows_na_all(df, threshold) ==
    LET threshold_na_row == (threshold * Len(df.cols)) \div 100
        threshold_na_col == (threshold * Len(df.data)) \div 100
        rows == DropAt(df.data, {r \in 1..Len(df.data) :
                                    NonNaCount(df.data[r]) < threshold_na_row})
        kept == [cols |-> df.cols, data |-> rows]
    IN DropColumnsAt(kept,
          {i \in 1..Len(df.cols) :
              NonNaCount([r \in 1..Len(rows) |-> rows[r][i]]) < threshold_na_col})

\* DataFrame.convert_dtypes changes the dtypes (float64 holding integers to
\* Int64, NaN to NA), not the cells
convert_dtypes(df) == [cols |-> df.cols, data |-> df.data]

\* a removal that keeps the last of the equal columns
remove_duplicated_cols_keep_last(df) ==
    LET vec(i) == [r \in 1..Len(df.data) |-> df.data[r][i]]
        dupli == {i \in 1..Len(df.cols) :
                     \E j \in (i + 1)..Len(df.cols) : vec(j) = vec(i)}
        dupli_cols == {df.cols[i] : i \in dupli}
    IN DropColumnsAt(df, {i \in 1..Len(df.cols) : df.cols[i] \in dupli_cols})

\* Processed._remove_duplicated_cols: a column equal in every row to an
\* earlier column is a duplicate; the drop is by name
remove_duplicated_cols(df) ==
    LET vec(i) == [r \in 1..Len(df.data) |-> df.data[r][i]]
        dupli == {i \in 1..Len(df.cols) : \E j \in 1..(i - 1) : vec(j) = vec(i)}
        dupli_cols == {df.cols[i] : i \in dupli}
    IN DropColumnsAt(df, {i \in 1..Len(df.cols) : df.cols[i] \in dupli_cols})

\* _merge_data as one call: the frame built, the number of files read, and
\* the KeyError of AGGREGATION_LEVEL_MAP[level] raised by the first merge of
\* a non-empty accumulated frame when the level is not in the map
RECURSIVE merge_run(_, _, _, _, _)
merge_run(acc, files, order, level, nread) ==
    IF order = <<>> THEN [frame |-> acc, read |-> nread, err |-> "none"]
    ELSE IF ~IsEmpty(acc) /\ level \notin Levels
    THEN [frame |-> acc, read |-> nread + 1, err |-> "KeyError"]
    ELSE merge_run(merge_one(acc, files[Head(order)], level), files,
                   Tail(order), level, nread + 1)

\* run(): init_logger_name, init_state
InitState ==
    /\ pc = "new"
    /\ state' = "processed"
    /\ pc' = "make_folders"
    /\ UNCHANGED <<raw_vars, interim_vars, error, aggregation_level, global_cols, global_threshold,
                   interim_files, filenames, file_idx, processed_data,
                   input_data, fs_ops, cur_dir, folders, na_threshold>>

\* run(): self._make_folders(folders=[self.data_name, self.aggregation_level])
MakeFolders ==
    /\ pc = "make_folders"
    /\ LET names == <<region, org, year, state, data_name, aggregation_level>>
       IN /\ cur_dir' = root_path \o names
          /\ fs_ops' = fs_ops \o MkdirOps(root_path, names)
          /\ folders' = folders \cup Prefixes(root_path \o names)
    /\ pc' = "merge"
    /\ UNCHANGED <<raw_vars, interim_vars, error, aggregation_level, global_cols, global_threshold,
                   interim_files, filenames, file_idx, processed_data,
                   input_data, state, na_threshold>>

\* run(): self._merge_data(), when the interim folder of the level is missing:
\* os.listdir raises
MergeDataNoFolder ==
    /\ pc = "merge"
    /\ get_data_name_folders_path("interim") \o <<aggregation_level>> \notin folders
    /\ fs_ops' = Append(fs_ops,
          [op |-> "listdir",
           path |-> get_data_name_folders_path("interim") \o <<aggregation_level>>])
    /\ error' = "FileNotFoundError"
    /\ pc' = "failed"
    /\ UNCHANGED <<raw_vars, interim_vars, aggregation_level, global_cols, global_threshold,
                   interim_files, filenames, file_idx, processed_data,
                   input_data, run_vars>>

\* run(): self._merge_data(): list the folder, read and merge file after file
RunMergeData ==
    /\ pc = "merge"
    /\ get_data_name_folders_path("interim") \o <<aggregation_level>> \in folders
    /\ filenames' \in Orders(DOMAIN interim_files)
    /\ LET dir == get_data_name_folders_path("interim") \o <<aggregation_level>>
           res == merge_run(EmptyFrame, interim_files, filenames',
                            aggregation_level, 0)
       IN /\ fs_ops' = Append(fs_ops, [op |-> "listdir", path |-> dir])
                          \o [i \in 1..res.read |->
                                [op |-> "read", path |-> dir \o <<filenames'[i]>>]]
          /\ file_idx' = res.read
          /\ error' = res.err
          /\ processed_data' = IF res.err = "none"
                               THEN drop_duplicated_col_from_merge(res.frame)
                               ELSE res.frame
          /\ pc' = IF res.err = "none" THEN "merged" ELSE "failed"
    /\ UNCHANGED <<raw_vars, interim_vars, aggregation_level, global_cols, global_threshold,
                   interim_files, input_data, run_vars>>

\* run(): self._drop_cols_rows_na_all()
DropNa ==
    /\ pc = "merged"
    /\ processed_data' = drop_cols_rows_na_all(processed_data, na_threshold)
    /\ pc' = "na_dropped"
    /\ UNCHANGED <<raw_vars, interim_vars, error, aggregation_level, global_cols, global_threshold,
                   interim_files, filenames, file_idx, input_data, fs_ops, run_vars>>

\* run(): self._convert_dtypes()
ConvertDtypes ==
    /\ pc = "na_dropped"
    /\ processed_data' = convert_dtypes(processed_data)
    /\ input_data' = processed_data'
    /\ pc' = "converted"
    /\ UNCHANGED <<raw_vars, interim_vars, error, aggregation_level, global_cols, global_threshold,
                   interim_files, filenames, file_idx, fs_ops, run_vars>>

\* run(): self._normalize_data() on a dataset that lacks one of the
\* TOTAL_COLS columns: the column lookup raises
NormalizeKeyError ==
    /\ pc = "converted"
    /\ ~(SeqToSet(TotalColsList) \subseteq ColNames(processed_data))
    /\ error' = "KeyError"
    /\ pc' = "failed"
    /\ UNCHANGED <<raw_vars, interim_vars, aggregation_level, global_cols, global_threshold,
                   interim_files, filenames, file_idx, processed_data,
                   input_data, fs_ops, run_vars>>

\* run(): self._remove_duplicated_cols()
RemoveDuplicatedCols ==
    /\ pc = "normalized"
    /\ processed_data' = remove_duplicated_cols(processed_data)
    /\ pc' = "deduplicated"
    /\ UNCHANGED <<raw_vars, interim_vars, error, aggregation_level, global_cols, global_threshold,
                   interim_files, filenames, file_idx, input_data, fs_ops, run_vars>>

\* run(): self._remove_uncessary_geo_cols() with a level that is not a key of
\* AGGREGATION_LEVEL_MAP: the lookup raises
RemoveGeoColsKeyError ==
    /\ pc = "deduplicated"
    /\ aggregation_level \notin Levels
    /\ error' = "KeyError"
    /\ pc' = "failed"
    /\ UNCHANGED <<raw_vars, interim_vars, aggregation_level, global_cols, global_threshold,
                   interim_files, filenames, file_idx, processed_data,
                   input_data, fs_ops, run_vars>>

\* run(): self._save_data()
SaveData ==
    /\ pc = "geo_pruned"
    /\ fs_ops' = Append(fs_ops,
          [op |-> "write",
           path |-> cur_dir \o <<IF global_cols = 1 THEN "data_with_global.csv"
                                 ELSE "data_no_global.csv">>])
    /\ pc' = "saved"
    /\ UNCHANGED <<raw_vars, interim_vars, error, aggregation_level, global_cols, global_threshold,
                   interim_files, filenames, file_idx, processed_data,
                   input_data, run_vars>>

\* the levels a run may be asked for; "county" is not in the hierarchy map
RunLevels == {"city", "district", "county"}

\* the id column the interim stage wrote for a level
LevelKeyCol(level) ==
    IF level \in Levels THEN GeoIdCol(level)
    ELSE GEO_TAG \o <<"_", "I", "D", "_", "C", "O", "U", "N", "T", "Y">>

\* the two interim files of a census: the four totals with a finer
\* geographic id, and a basic measure with a population count
RunFrame(f, level, ks) ==
    LET keys == SortedSeq(ks)
    IN IF f = "a.csv"
       THEN [cols |-> <<LevelKeyCol(level)>> \o TotalColsList
                        \o <<GeoIdCol("subdistrict")>>,
             data |-> [r \in 1..Len(keys) |->
                         <<Num(keys[r]), Num(2 * keys[r]), Num(keys[r]),
                           Num(5 * keys[r]), Num(5), Num(keys[r])>>]]
       ELSE [cols |-> <<LevelKeyCol(level), ExtraCols[1], ExtraCols[2]>>,
             data |-> [r \in 1..Len(keys) |->
                         <<Num(keys[r]), Num(keys[r]), Num(1)>>]]

InitRun ==
    /\ RawIdle
    /\ pc = "new"
    /\ error = "none"
    /\ aggregation_level \in RunLevels
    /\ global_cols \in {0, 1}
    /\ global_threshold = Rat(1, 2)
    /\ na_threshold \in {0, 50, 100}
    /\ state = "none"
    /\ cur_dir = <<>>
    /\ \/ /\ folders = Prefixes(get_data_name_folders_path("interim"))
          /\ interim_files = <<>>
       \/ /\ folders = Prefixes(get_data_name_folders_path("interim")
                                  \o <<aggregation_level>>)
          /\ \E S \in SUBSET {"a.csv", "b.csv"} :
                /\ interim_files \in
                      [S -> UNION {{RunFrame(f, aggregation_level, ks) :
                                      ks \in SUBSET TwoRows} : f \in S}]
                /\ \A f \in S : \E ks \in SUBSET TwoRows :
                      interim_files[f] = RunFrame(f, aggregation_level, ks)
    /\ filenames = <<>>
    /\ file_idx = 0
    /\ processed_data = EmptyFrame
    /\ input_data = EmptyFrame
    /\ fs_ops = <<>>
    /\ InterimIdle

NextRun ==
    \/ InitState
    \/ MakeFolders
    \/ MergeDataNoFolder
    \/ RunMergeData
    \/ DropNa
    \/ ConvertDtypes
    \/ NormalizeByTotal
    \/ NormalizeKeyError
    \/ NormalizeGlobal
    \/ RemoveGlobalColsTypeError
    \/ RemoveDuplicatedCols
    \/ RemoveGeoCols
    \/ RemoveGeoColsKeyError
    \/ SaveData

SpecRun == InitRun /\ [][NextRun]_vars

\* C8: with an aggregation level that is not a key of the hierarchy map the
\* run fails at its start with UnknownAggregationLevelError and performs no
\* file-system operation: no mkdir, no listdir, no read, no write.
C8_UnknownLevelFailsFast ==
    aggregation_level \notin Levels =>
        /\ fs_ops = <<>>
        /\ pc = "failed" => error = "UnknownAggregationLevelError"

\* with an unknown level the run never writes its output: it ends in a
\* FileNotFoundError or a KeyError, after the folders were made
UnknownLevelNeverSaves ==
    aggregation_level \notin Levels =>
        /\ pc # "saved"
        /\ \A i \in 1..Len(fs_ops) : fs_ops[i].op # "write"
        /\ pc = "failed" =>
              /\ error \in {"FileNotFoundError", "KeyError"}
              /\ \E i \in 1..Len(fs_ops) : fs_ops[i].op = "mkdir"

(***************************************************************************)
(* Interim: names                                                          *)
(***************************************************************************)
\* a text cell (a state abbreviation, a city name), by its code
Str(c) == [k |-> "str", n |-> c, d |-> 1]
IsStr(v) == v.k = "str"

\* float64 a + b: inf + -inf is NaN
FAdd(a, b) ==
    CASE IsNaN(a) \/ IsNaN(b) -> NaN
      [] IsNum(a) /\ IsNum(b) -> Rat(a.n * b.d + b.n * a.d, a.d * b.d)
      [] IsNum(a) -> b
      [] IsNum(b) -> a
      [] OTHER -> IF a = b THEN a ELSE NaN

\* float64 a * b: 0 * inf is NaN
FMul(a, b) ==
    CASE IsNaN(a) \/ IsNaN(b) -> NaN
      [] IsNum(a) /\ IsNum(b) -> Rat(a.n * b.n, a.d * b.d)
      [] IsNum(a) ->
            IF a.n = 0 THEN NaN
            ELSE IF a.n > 0 THEN b
            ELSE (IF b = PosInf THEN NegInf ELSE PosInf)
      [] IsNum(b) ->
            IF b.n = 0 THEN NaN
            ELSE IF b.n > 0 THEN a
            ELSE (IF a = PosInf THEN NegInf ELSE PosInf)
      [] OTHER -> IF a = b THEN PosInf ELSE NegInf

MAP_CANDIDACY == [p \in {"president", "governor"} |-> IF p = "president" THEN 1 ELSE 3]

MAP_BLANK_NULL == [NULL |-> 96, BLANK |-> 95]

\* list(MAP_BLANK_NULL.values())
BlankNullValues == <<MAP_BLANK_NULL.NULL, MAP_BLANK_NULL.BLANK>>

UNIQUE_ID ==
    << <<"[", "G", "E", "O", "]", "_", "I", "D", "_", "T", "S", "E", "_", "C", "I", "T", "Y">>,
       <<"[", "G", "E", "O", "]", "_", "I", "D", "_", "P", "O", "L", "L", "I", "N", "G", "_", "Z", "O", "N", "E">>,
       <<"[", "G", "E", "O", "]", "_", "I", "D", "_", "P", "O", "L", "L", "I", "N", "G", "_", "P", "L", "A", "C", "E">>,
       <<"[", "G", "E", "O", "]", "_", "I", "D", "_", "P", "O", "L", "L", "I", "N", "G", "_", "S", "E", "C", "T", "I", "O", "N">> >>

\* the dict, as the sequence of its items in insertion order
MAP_COL_RENAME ==
    << [raw |-> <<"S", "G", "_", " ", "U", "F">>,
        new |-> <<"[", "G", "E", "O", "]", "_", "U", "F">>],
       [raw |-> <<"C", "D", "_", "M", "U", "N", "I", "C", "I", "P", "I", "O">>,
        new |-> <<"[", "G", "E", "O", "]", "_", "I", "D", "_", "T", "S", "E", "_", "C", "I", "T", "Y">>],
       [raw |-> <<"N", "M", "_", "M", "U", "N", "I", "C", "I", "P", "I", "O">>,
        new |-> <<"[", "G", "E", "O", "]", "_", "C", "I", "T", "Y">>],
       [raw |-> <<"N", "R", "_", "Z", "O", "N", "A">>,
        new |-> <<"[", "G", "E", "O", "]", "_", "I", "D", "_", "P", "O", "L", "L", "I", "N", "G", "_", "Z", "O", "N", "E">>],
       [raw |-> <<"N", "R", "_", "S", "E", "C", "A", "O">>,
        new |-> <<"[", "G", "E", "O", "]", "_", "I", "D", "_", "P", "O", "L", "L", "I", "N", "G", "_", "S", "E", "C", "T", "I", "O", "N">>],
       [raw |-> <<"N", "R", "_", "L", "O", "C", "A", "L", "_", "V", "O", "T", "A", "C", "A", "O">>,
        new |-> <<"[", "G", "E", "O", "]", "_", "I", "D", "_", "P", "O", "L", "L", "I", "N", "G", "_", "P", "L", "A", "C", "E">>],
       [raw |-> <<"C", "D", "_", "C", "A", "R", "G", "O", "_", "P", "E", "R", "G", "U", "N", "T", "A">>,
        new |-> <<"[", "E", "L", "E", "C", "T", "I", "O", "N", "]", "_", "I", "D", "_", "C", "A", "N", "D", "I", "D", "A", "C", "Y", "_", "P", "O", "S", "I", "T", "I", "O", "N">>],
       [raw |-> <<"Q", "T", "_", "A", "P", "T", "O", "S">>,
        new |-> <<"[", "E", "L", "E", "C", "T", "I", "O", "N", "]", "_", "E", "L", "E", "C", "T", "O", "R", "A", "T", "E">>],
       [raw |-> <<"Q", "T", "_", "C", "O", "M", "P", "A", "R", "E", "C", "I", "M", "E", "N", "T", "O">>,
        new |-> <<"[", "E", "L", "E", "C", "T", "I", "O", "N", "]", "_", "T", "U", "R", "N", "O", "U", "T">>],
       [raw |-> <<"Q", "T", "_", "A", "B", "S", "T", "E", "N", "C", "O", "E", "S">>,
        new |-> <<"[", "E", "L", "E", "C", "T", "I", "O", "N", "]", "_", "A", "B", "S", "T", "E", "N", "T", "I", "O", "N", "S">>],
       [raw |-> <<"N", "R", "_", "V", "O", "T", "A", "V", "E", "L">>,
        new |-> <<"[", "E", "L", "E", "C", "T", "I", "O", "N", "]", "_", "I", "D", "_", "C", "A", "N", "D", "I", "D", "A", "T", "E">>],
       [raw |-> <<"Q", "T", "_", "V", "O", "T", "O", "S">>,
        new |-> <<"[", "E", "L", "E", "C", "T", "I", "O", "N", "]", "_", "V", "O", "T", "E", "S">>],
       [raw |-> <<"Q", "T", "_", "E", "L", "E", "I", "T", "O", "R", "E", "S", "_", "B", "I", "O", "M", "E", "T", "R", "I", "A", "_", "N", "H">>,
        new |-> <<"[", "E", "L", "E", "C", "T", "I", "O", "N", "]", "_", "E", "L", "E", "C", "T", "O", "R", "A", "T", "E", "_", "B", "I", "O", "M", "E", "T", "R", "I", "A">>] >>

\* the column names the steps of Interim spell out
UF_COL == <<"[", "G", "E", "O", "]", "_", "U", "F">>
CITY_COL == <<"[", "G", "E", "O", "]", "_", "C", "I", "T", "Y">>
CANDIDACY_POSITION_COL == <<"[", "E", "L", "E", "C", "T", "I", "O", "N", "]", "_", "I", "D", "_", "C", "A", "N", "D", "I", "D", "A", "C", "Y", "_", "P", "O", "S", "I", "T", "I", "O", "N">>
ELECTORATE_COL == <<"[", "E", "L", "E", "C", "T", "I", "O", "N", "]", "_", "E", "L", "E", "C", "T", "O", "R", "A", "T", "E">>
TURNOUT_COL == <<"[", "E", "L", "E", "C", "T", "I", "O", "N", "]", "_", "T", "U", "R", "N", "O", "U", "T">>
ABSTENTIONS_COL == <<"[", "E", "L", "E", "C", "T", "I", "O", "N", "]", "_", "A", "B", "S", "T", "E", "N", "T", "I", "O", "N", "S">>
ID_CANDIDATE_COL == <<"[", "E", "L", "E", "C", "T", "I", "O", "N", "]", "_", "I", "D", "_", "C", "A", "N", "D", "I", "D", "A", "T", "E">>
VOTES_COL == <<"[", "E", "L", "E", "C", "T", "I", "O", "N", "]", "_", "V", "O", "T", "E", "S">>
ELECTORATE_BIOMETRIA_COL == <<"[", "E", "L", "E", "C", "T", "I", "O", "N", "]", "_", "E", "L", "E", "C", "T", "O", "R", "A", "T", "E", "_", "B", "I", "O", "M", "E", "T", "R", "I", "A">>
BLANK_COL == <<"[", "E", "L", "E", "C", "T", "I", "O", "N", "]", "_", "B", "L", "A", "N", "K">>
NULL_COL == <<"[", "E", "L", "E", "C", "T", "I", "O", "N", "]", "_", "N", "U", "L", "L">>
CANDIDATE_PREFIX == <<"[", "E", "L", "E", "C", "T", "I", "O", "N", "]", "_", "C", "A", "N", "D", "I", "D", "A", "T", "E", "_">>
CANDIDATE_TAG == <<"C", "A", "N", "D", "I", "D", "A", "T", "E">>
ID_TAG == <<"_", "I", "D", "_">>
POLLING_TAG == <<"P", "O", "L", "L", "I", "N", "G">>
SHARE_SUFFIX == <<"_", "(", "%", ")">>

\* str(n) of a natural number
Digits == <<"0", "1", "2", "3", "4", "5", "6", "7", "8", "9">>
RECURSIVE IntToStr(_)
IntToStr(n) ==
    IF n < 10 THEN <<Digits[n + 1]>>
    ELSE IntToStr(n \div 10) \o <<Digits[(n % 10) + 1]>>

(***************************************************************************)
(* Interim: the steps on one raw file                                      *)
(***************************************************************************)
Cell(df, r, name) == df.data[r][ColIndex(df, name)]

\* df[mask]: the rows at the positions in keep, in row order
KeepRows(df, keep) ==
    [cols |-> df.cols, data |-> DropAt(df.data, (1..Len(df.data)) \ keep)]

\* DataFrame.rename(columns=MAP_COL_RENAME) on one column name
renamed_col(c) ==
    IF \E i \in 1..Len(MAP_COL_RENAME) : MAP_COL_RENAME[i].raw = c
    THEN MAP_COL_RENAME[CHOOSE i \in 1..Len(MAP_COL_RENAME) :
                           MAP_COL_RENAME[i].raw = c].new
    ELSE c

\* df[labels]: for each label in turn, every column that bears it
RECURSIVE LabelPositions(_, _)
LabelPositions(df, labels) ==
    IF labels = <<>> THEN <<>>
    ELSE SortedSeq({i \in 1..Len(df.cols) : df.cols[i] = Head(labels)})
         \o LabelPositions(df, Tail(labels))

\* Interim._rename_cols: rename by MAP_COL_RENAME, then select the canonical
\* columns in map order; a canonical column that is absent raises KeyError
rename_cols(df) ==
    LET named == [cols |-> [i \in 1..Len(df.cols) |-> renamed_col(df.cols[i])],
                  data |-> df.data]
        wanted == [i \in 1..Len(MAP_COL_RENAME) |-> MAP_COL_RENAME[i].new]
        at == LabelPositions(named, wanted)
    IN IF \E i \in 1..Len(wanted) : wanted[i] \notin ColNames(named)
       THEN [err |-> "KeyError", frame |-> named]
       ELSE [err |-> "none",
             frame |-> [cols |-> [k \in 1..Len(at) |-> named.cols[at[k]]],
                        data |-> [r \in 1..Len(named.data) |->
                                    [k \in 1..Len(at) |-> named.data[r][at[k]]]]]]

\* Interim._filter_by_candidacy_pos
filter_by_candidacy_pos(df, pos) ==
    KeepRows(df, {r \in 1..Len(df.data) :
                    Cell(df, r, CANDIDACY_POSITION_COL) = Num(MAP_CANDIDACY[pos])})

\* Interim._drop_na_candidates
drop_na_candidates(df) ==
    KeepRows(df, {r \in 1..Len(df.data) : ~IsNaN(Cell(df, r, ID_CANDIDATE_COL))})

\* Interim._fill_na_electorate_biometry
fill_na_electorate_biometry(df) ==
    LET b == ColIndex(df, ELECTORATE_BIOMETRIA_COL)
    IN [cols |-> df.cols,
        data |-> [r \in 1..Len(df.data) |->
                    [i \in 1..Len(df.cols) |->
                        IF i = b /\ IsNaN(df.data[r][i]) THEN Num(0)
                        ELSE df.data[r][i]]]]

\* the cells of the UNIQUE_ID columns of row r
UniqueKey(df, r) == [i \in 1..Len(UNIQUE_ID) |-> Cell(df, r, UNIQUE_ID[i])]

\* order of index labels: numbers by value, texts by code
CellLess(a, b) == a.n * b.d < b.n * a.d
TupleLess(s, t) ==
    \E i \in 1..Len(s) :
        /\ \A j \in 1..(i - 1) : s[j] = t[j]
        /\ CellLess(s[i], t[i])

\* the tuples of a finite set in ascending lexicographic order
RECURSIVE SortedTuples(_)
SortedTuples(S) ==
    IF S = {} THEN <<>>
    ELSE LET m == CHOOSE x \in S : \A y \in S : ~TupleLess(y, x)
         IN <<m>> \o SortedTuples(S \ {m})

\* Interim._rename_votes_cols, on one column label of the pivot
rename_votes_col(label) ==
    IF label = MAP_BLANK_NULL.BLANK THEN BLANK_COL
    ELSE IF label = MAP_BLANK_NULL.NULL THEN NULL_COL
    ELSE IF label # 0 THEN CANDIDATE_PREFIX \o IntToStr(label)
    ELSE IntToStr(label)

\* Interim._get_votes_by_candidates: index by UNIQUE_ID + candidate id,
\* unstack the candidate level (ValueError when an index entry repeats),
\* take the votes and select candidates + [96, 95] (KeyError when a label
\* is not a column of the pivot).  The index is kept as leading columns.
get_votes_by_candidates(df, cands) ==
    LET rows == 1..Len(df.data)
        label(r) == Cell(df, r, ID_CANDIDATE_COL).n
        labels == {label(r) : r \in rows}
        wanted == cands \o BlankNullValues
        sections == SortedTuples({UniqueKey(df, r) : r \in rows})
        votes_of(key, c) ==
            IF \E r \in rows : UniqueKey(df, r) = key /\ label(r) = c
            THEN Cell(df, CHOOSE r \in rows :
                              UniqueKey(df, r) = key /\ label(r) = c, VOTES_COL)
            ELSE Num(0)
    IN IF \E r1, r2 \in rows :
             r1 < r2 /\ UniqueKey(df, r1) = UniqueKey(df, r2) /\ label(r1) = label(r2)
       THEN [err |-> "ValueError", frame |-> EmptyFrame]
       ELSE IF \E i \in 1..Len(wanted) : wanted[i] \notin labels
       THEN [err |-> "KeyError", frame |-> EmptyFrame]
       ELSE [err |-> "none",
             frame |-> [cols |-> UNIQUE_ID \o
                                 [i \in 1..Len(wanted) |-> rename_votes_col(wanted[i])],
                        data |-> [s \in 1..Len(sections) |->
                                    sections[s] \o
                                    [i \in 1..Len(wanted) |->
                                        votes_of(sections[s], wanted[i])]]]]

\* Interim._drop_duplicated_rows: drop_duplicates(subset=UNIQUE_ID), keep first
drop_duplicated_rows(df) ==
    KeepRows(df, {r \in 1..Len(df.data) :
                    \A q \in 1..(r - 1) : UniqueKey(df, q) # UniqueKey(df, r)})

\* Interim._join_votes: set_index(UNIQUE_ID), left join on the index,
\* reset_index (the index columns come first), drop three columns
join_votes(df, votes) ==
    LET idx == {i \in 1..Len(df.cols) : \E j \in 1..Len(UNIQUE_ID) : df.cols[i] = UNIQUE_ID[j]}
        nkeys == Len(UNIQUE_ID)
        width == Len(votes.cols) - nkeys
        match(key) == {q \in 1..Len(votes.data) : SubSeq(votes.data[q], 1, nkeys) = key}
        joined(r) ==
            LET key == UniqueKey(df, r)
            IN IF match(key) = {} THEN [i \in 1..width |-> NaN]
               ELSE SubSeq(votes.data[CHOOSE q \in match(key) : TRUE],
                           nkeys + 1, Len(votes.cols))
        full == [cols |-> UNIQUE_ID \o DropAt(df.cols, idx)
                            \o SubSeq(votes.cols, nkeys + 1, Len(votes.cols)),
                 data |-> [r \in 1..Len(df.data) |->
                             UniqueKey(df, r) \o DropAt(df.data[r], idx) \o joined(r)]]
    IN DropColumnsAt(full, {i \in 1..Len(full.cols) :
            full.cols[i] \in {VOTES_COL, CANDIDACY_POSITION_COL, ID_CANDIDATE_COL}})

\* Interim._drop_na_cols: dropna(axis=1) drops a column with any NaN
drop_na_cols(df) ==
    DropColumnsAt(df, {i \in 1..Len(df.cols) :
                         \E r \in 1..Len(df.data) : IsNaN(df.data[r][i])})

\* the body of the loop of Interim._pre_processing_data on one raw table
pre_processing_file(raw, pos, cands) ==
    LET renamed == rename_cols(raw)
    IN IF renamed.err # "none" THEN renamed
       ELSE LET filled == fill_na_electorate_biometry(
                             drop_na_candidates(
                                filter_by_candidacy_pos(renamed.frame, pos)))
                votes == get_votes_by_candidates(filled, cands)
            IN IF votes.err # "none" THEN [err |-> votes.err, frame |-> filled]
               ELSE [err |-> "none",
                     frame |-> drop_na_cols(
                                  join_votes(drop_duplicated_rows(filled),
                                             votes.frame))]

(***************************************************************************)
(* Interim: the steps on the concatenated table                            *)
(***************************************************************************)
\* acc followed by the names it does not hold yet, in order
RECURSIVE AppendNew(_, _)
AppendNew(acc, names) ==
    IF names = <<>> THEN acc
    ELSE AppendNew(IF Head(names) \in SeqToSet(acc) THEN acc
                   ELSE Append(acc, Head(names)),
                   Tail(names))

RECURSIVE concat_cols(_)
concat_cols(frames) ==
    IF frames = <<>> THEN <<>>
    ELSE AppendNew(concat_cols(SubSeq(frames, 1, Len(frames) - 1)),
                   frames[Len(frames)].cols)

\* pd.concat(frames): the union of the columns in order of first appearance,
\* the rows one frame after the other, NaN where a frame lacks a column
concat(frames) ==
    LET cols == concat_cols(frames)
        fit(f, r) == [i \in 1..Len(cols) |->
                        IF cols[i] \in ColNames(f) THEN Cell(f, r, cols[i]) ELSE NaN]
        rowsOf(f) == [r \in 1..Len(f.data) |-> fit(f, r)]
        Stack[n \in 0..Len(frames)] ==
            IF n = 0 THEN <<>> ELSE Stack[n - 1] \o rowsOf(frames[n])
    IN [cols |-> cols, data |-> Stack[Len(frames)]]

\* the keys of the dict in Interim._get_merging_keys
MergingLevels == {"polling place", "city"}

\* Interim._get_merging_keys, for a level of MergingLevels
get_merging_keys(level) ==
    IF level = "polling place"
    THEN <<UF_COL, CITY_COL, UNIQUE_ID[2], UNIQUE_ID[3]>>
    ELSE <<UF_COL, CITY_COL>>

\* pandas.api.types.is_numeric_dtype of column i: no text cell
is_numeric_dtype(df, i) == \A r \in 1..Len(df.data) : ~IsStr(df.data[r][i])

\* Interim._create_aggregation_map, by column position
create_aggregation_map(df) ==
    [i \in 1..Len(df.cols) |->
        IF is_numeric_dtype(df, i) /\ ~Contains(ID_TAG, df.cols[i])
        THEN "sum" ELSE "first"]

\* GroupBy "sum": NaN cells are skipped, the empty sum is 0
RECURSIVE SumSkipNa(_)
SumSkipNa(cells) ==
    IF cells = <<>> THEN Num(0)
    ELSE IF IsNaN(Head(cells)) THEN SumSkipNa(Tail(cells))
    ELSE FAdd(Head(cells), SumSkipNa(Tail(cells)))

\* GroupBy "last": the last cell that is not NaN
RECURSIVE LastValid(_)
LastValid(cells) ==
    IF cells = <<>> THEN NaN
    ELSE IF IsNaN(cells[Len(cells)])
    THEN LastValid(SubSeq(cells, 1, Len(cells) - 1))
    ELSE cells[Len(cells)]

\* GroupBy "first": the first cell that is not NaN
RECURSIVE FirstValid(_)
FirstValid(cells) ==
    IF cells = <<>> THEN NaN
    ELSE IF IsNaN(Head(cells)) THEN FirstValid(Tail(cells))
    ELSE Head(cells)

\* Interim._aggregate_data: groupby(by=group_keys).agg(agg_map); the groups
\* come sorted by key, rows with a NaN key are left out, and every column of
\* agg_map (the key columns too) is a column of the result
aggregate_data(df, level) ==
    IF level \notin MergingLevels THEN [err |-> "KeyError", frame |-> df]
    ELSE LET group_keys == get_merging_keys(level)
             agg_map == create_aggregation_map(df)
         IN IF \E i \in 1..Len(group_keys) : group_keys[i] \notin ColNames(df)
            THEN [err |-> "KeyError", frame |-> df]
            ELSE LET keyOf(r) == [i \in 1..Len(group_keys) |-> Cell(df, r, group_keys[i])]
                     rows == {r \in 1..Len(df.data) :
                                \A i \in 1..Len(group_keys) : ~IsNaN(keyOf(r)[i])}
                     groups == SortedTuples({keyOf(r) : r \in rows})
                     members(g) == SortedSeq({r \in rows : keyOf(r) = groups[g]})
                     cells(g, i) == [j \in 1..Len(members(g)) |-> df.data[members(g)[j]][i]]
                 IN [err |-> "none",
                     frame |-> [cols |-> df.cols,
                                data |-> [g \in 1..Len(groups) |->
                                            [i \in 1..Len(df.cols) |->
                                                IF agg_map[i] = "sum"
                                                THEN SumSkipNa(cells(g, i))
                                                ELSE FirstValid(cells(g, i))]]]]

\* df[name] = values: a new column is appended, an existing one is replaced
SetColumn(df, name, values) ==
    IF name \in ColNames(df)
    THEN [cols |-> df.cols,
          data |-> [r \in 1..Len(df.data) |->
                      [i \in 1..Len(df.cols) |->
                          IF i = ColIndex(df, name) THEN values[r] ELSE df.data[r][i]]]]
    ELSE [cols |-> Append(df.cols, name),
          data |-> [r \in 1..Len(df.data) |-> Append(df.data[r], values[r])]]

\* Interim._get_candidate_cols
get_candidate_cols(df) ==
    DropAt(df.cols, {i \in 1..Len(df.cols) : ~Contains(CANDIDATE_TAG, df.cols[i])})

\* part / whole, a fraction of one instead of a percentage
share_unscaled(part, whole) == FDiv(part, whole)

\* 100 * part / whole
share(part, whole) == FDiv(FMul(Num(100), part), whole)

\* the share columns in the order _create_shares_attributes assigns them:
\* the candidate columns found before the first assignment, then NULL, BLANK,
\* TURNOUT, ABSTENTIONS
shares_plan(df) ==
    LET cands == get_candidate_cols(df)
    IN [i \in 1..Len(cands) |-> [part |-> cands[i], whole |-> TURNOUT_COL]]
       \o << [part |-> NULL_COL, whole |-> TURNOUT_COL],
             [part |-> BLANK_COL, whole |-> TURNOUT_COL],
             [part |-> TURNOUT_COL, whole |-> ELECTORATE_COL],
             [part |-> ABSTENTIONS_COL, whole |-> ELECTORATE_COL] >>

\* the assignments of the plan one after the other; reading a column the
\* table lacks raises KeyError and leaves the table as it is by then
RECURSIVE apply_shares(_, _)
apply_shares(df, plan) ==
    IF plan = <<>> THEN [err |-> "none", frame |-> df]
    ELSE IF {Head(plan).part, Head(plan).whole} \subseteq ColNames(df)
    THEN apply_shares(
            SetColumn(df, Head(plan).part \o SHARE_SUFFIX,
                      [r \in 1..Len(df.data) |->
                          share(Cell(df, r, Head(plan).part),
                                Cell(df, r, Head(plan).whole))]),
            Tail(plan))
    ELSE [err |-> "KeyError", frame |-> df]

\* Interim._create_shares_attributes
create_shares_attributes(df) == apply_shares(df, shares_plan(df))

\* Interim._get_not_common_cols, after set_index(merging_keys) moved the key
\* columns of the locations into the index
get_not_common_cols(loc, df, keys) ==
    {i \in 1..Len(loc.cols) :
        loc.cols[i] \notin SeqToSet(keys) /\ loc.cols[i] \notin ColNames(df)}

\* Interim._merge_results_and_location_data: left join on the index; the
\* index of the aggregated results is the group key
merge_results_and_location_data(df, loc, level) ==
    LET keys == get_merging_keys(level)
        drop == (1..Len(loc.cols)) \ get_not_common_cols(loc, df, keys)
        right == DropColumnsAt(loc, drop)
        keyOf(f, r) == [i \in 1..Len(keys) |-> Cell(f, r, keys[i])]
        matches(r) == SortedSeq({q \in 1..Len(loc.data) : keyOf(loc, q) = keyOf(df, r)})
        joined(r) ==
            IF matches(r) = <<>>
            THEN <<df.data[r] \o [i \in 1..Len(right.cols) |-> NaN]>>
            ELSE [j \in 1..Len(matches(r)) |-> df.data[r] \o right.data[matches(r)[j]]]
        Rows[n \in 0..Len(df.data)] ==
            IF n = 0 THEN <<>> ELSE Rows[n - 1] \o joined(n)
    IN [cols |-> df.cols \o right.cols, data |-> Rows[Len(df.data)]]

\* Interim._remove_unecessary_cols
remove_unecessary_cols(df, level) ==
    IF level = "city"
    THEN DropColumnsAt(df, {i \in 1..Len(df.cols) : Contains(POLLING_TAG, df.cols[i])})
    ELSE df

(***************************************************************************)
(* Interim: the raw folder and the locations file                          *)
(***************************************************************************)
MaxVotes == 1

geocoding_api == "GMAPS"

\* Data._get_state_folders_path
get_state_folders_path(st) == root_path \o <<region, org, year, st>>

\* Data._get_process_folder_path
get_process_folder_path(st) == root_path \o <<region, org, year, st>>

\* the header of a raw export: the columns of MAP_COL_RENAME in the order of
\* the export, after a column the map does not know
RawCols ==
    << <<"D", "T", "_", "G", "E", "R", "A", "C", "A", "O">>,
       <<"S", "G", "_", " ", "U", "F">>,
       <<"C", "D", "_", "M", "U", "N", "I", "C", "I", "P", "I", "O">>,
       <<"N", "M", "_", "M", "U", "N", "I", "C", "I", "P", "I", "O">>,
       <<"N", "R", "_", "Z", "O", "N", "A">>,
       <<"N", "R", "_", "S", "E", "C", "A", "O">>,
       <<"N", "R", "_", "L", "O", "C", "A", "L", "_", "V", "O", "T", "A", "C", "A", "O">>,
       <<"C", "D", "_", "C", "A", "R", "G", "O", "_", "P", "E", "R", "G", "U", "N", "T", "A">>,
       <<"Q", "T", "_", "A", "P", "T", "O", "S">>,
       <<"Q", "T", "_", "C", "O", "M", "P", "A", "R", "E", "C", "I", "M", "E", "N", "T", "O">>,
       <<"Q", "T", "_", "A", "B", "S", "T", "E", "N", "C", "O", "E", "S">>,
       <<"Q", "T", "_", "V", "O", "T", "O", "S">>,
       <<"N", "R", "_", "V", "O", "T", "A", "V", "E", "L">>,
       <<"Q", "T", "_", "E", "L", "E", "I", "T", "O", "R", "E", "S", "_", "B", "I", "O", "M", "E", "T", "R", "I", "A", "_", "N", "H">> >>

\* a polling section: state, city id, city, zone, section, place and the
\* per-section measures repeated on each of its rows
Section(uf, city, zone, section, place, electorate, turnout, abstentions, biometry) ==
    [uf |-> uf, city |-> city, zone |-> zone, section |-> section, place |-> place,
     electorate |-> electorate, turnout |-> turnout, abstentions |-> abstentions,
     biometry |-> biometry]

\* one row of the export: the votes a votable got in a section for a position
RawRow(sec, pos, votable, votes) ==
    <<Num(0), Str(sec.uf), Num(10 * sec.city), Str(sec.city), Num(sec.zone),
      Num(sec.section), Num(sec.place), Num(pos), sec.electorate, sec.turnout,
      sec.abstentions, Num(votes), votable, sec.biometry>>

\* the ids on the ballot: two candidates, blank, null
Votables == <<13, 17, MAP_BLANK_NULL.BLANK, MAP_BLANK_NULL.NULL>>

\* the president rows of a section: one per votable that got votes
RECURSIVE PresidentRows(_, _, _)
PresidentRows(sec, votes, ids) ==
    IF ids = <<>> THEN <<>>
    ELSE (IF votes[Head(ids)] > 0
          THEN <<RawRow(sec, MAP_CANDIDACY["president"], Num(Head(ids)), votes[Head(ids)])>>
          ELSE <<>>)
         \o PresidentRows(sec, votes, Tail(ids))

TotalVotes(votes) ==
    votes[13] + votes[17] + votes[MAP_BLANK_NULL.BLANK] + votes[MAP_BLANK_NULL.NULL]

\* the vote counts of the first section: the null votes are never zero
VoteCounts ==
    {v \in [{13, 17, MAP_BLANK_NULL.BLANK, MAP_BLANK_NULL.NULL} -> 0..MaxVotes] :
        v[MAP_BLANK_NULL.NULL] > 0}

\* the second section of the first state: no vote for candidate 17, the
\* biometry count missing, and a row whose votable is #NULO#
SecondSectionVotes ==
    [c \in {13, 17, MAP_BLANK_NULL.BLANK, MAP_BLANK_NULL.NULL} |->
        IF c = 13 THEN 1 ELSE IF c = 17 THEN 0
        ELSE IF c = MAP_BLANK_NULL.BLANK THEN 1 ELSE 2]

\* the export of the first state: section 1 with the given votes and a
\* turnout that exceeds them by slack, a governor row, optionally section 2
\* of the same city at another polling place, optionally the first row again
FirstExport(votes, slack, second, twice) ==
    LET s1 == Section(1, 1, 1, 1, 1, Num(TotalVotes(votes) + slack + 1),
                      Num(TotalVotes(votes) + slack), Num(1), Num(3))
        s2 == Section(1, 1, 1, 2, 2, Num(5), Num(4), Num(1), NaN)
        rows == PresidentRows(s1, votes, Votables)
                \o <<RawRow(s1, MAP_CANDIDACY["governor"], Num(45), 1)>>
                \o (IF second
                    THEN PresidentRows(s2, SecondSectionVotes, Votables)
                         \o <<RawRow(s2, MAP_CANDIDACY["president"], NaN, 1)>>
                    ELSE <<>>)
    IN [cols |-> RawCols,
        data |-> IF twice THEN Append(rows, rows[1]) ELSE rows]

\* the export of the second state: one section, the abstentions missing
SecondExport ==
    LET s3 == Section(2, 2, 1, 1, 1, Num(6), Num(5), NaN, Num(0))
        votes == [c \in {13, 17, MAP_BLANK_NULL.BLANK, MAP_BLANK_NULL.NULL} |->
                    IF c = 13 THEN 2 ELSE 1]
    IN [cols |-> RawCols, data |-> PresidentRows(s3, votes, Votables)]

\* the export of the second state with the city name of its first row
\* given as #NULO#
SecondExportUnnamed ==
    [cols |-> RawCols,
     data |-> [r \in 1..Len(SecondExport.data) |->
                 [i \in 1..Len(RawCols) |->
                     IF r = 1 /\ RawCols[i] = MAP_COL_RENAME[3].raw THEN NaN
                     ELSE SecondExport.data[r][i]]]]

\* the raw folder, as the sequence of its tables in reading order
RawFolders ==
    {<<SecondExport>>}
    \cup UNION {{<<FirstExport(v, slack, second, twice)>>,
                 <<FirstExport(v, slack, second, twice), SecondExport>>,
                 <<FirstExport(v, slack, second, twice), SecondExportUnnamed>>} :
                v \in VoteCounts, slack \in {0, 1},
                second \in BOOLEAN, twice \in BOOLEAN}

RawFileNames == <<"uf1.csv", "uf2.csv">>

\* the configured candidates: both candidates, or the first one only
CandidateLists == {<<13, 17>>, <<13>>}

\* the levels asked of Interim; "census tract" is no key of its merging keys
InterimLevels == {"city", "polling place", "census tract"}

\* locations_<api>.csv of a level of MergingLevels: the key columns, the city
\* id where the level is the city, and a coordinate; the polling places of
\* the second state are not geocoded
LocationsFile(level) ==
    IF level = "city"
    THEN [cols |-> <<UF_COL, CITY_COL, UNIQUE_ID[1], <<"[", "G", "E", "O", "]", "_", "L", "A", "T">>>>,
          data |-> << <<Str(1), Str(1), Num(10), Num(5)>>,
                      <<Str(2), Str(2), Num(20), Num(7)>> >>]
    ELSE [cols |-> <<UF_COL, CITY_COL, UNIQUE_ID[2], UNIQUE_ID[3], <<"[", "G", "E", "O", "]", "_", "L", "A", "T">>>>,
          data |-> << <<Str(1), Str(1), Num(1), Num(1), Num(5)>>,
                      <<Str(1), Str(1), Num(1), Num(2), Num(6)>> >>]

(***************************************************************************)
(* Interim.run                                                             *)
(***************************************************************************)
\* the fields of Processed, untouched by the steps of Interim
processed_vars == <<global_cols, global_threshold, interim_files, filenames,
                    file_idx, processed_data, input_data, na_threshold>>

\* run(): init_logger_name, init_state, _make_folders
InterimMakeFolders ==
    /\ pc = "new"
    /\ state' = "interim"
    /\ LET names == <<region, org, year, "interim", data_name, aggregation_level,
                      candidacy_pos>>
       IN /\ cur_dir' = root_path \o names
          /\ fs_ops' = fs_ops \o MkdirOps(root_path, names)
          /\ folders' = folders \cup Prefixes(root_path \o names)
    /\ pc' = "list_raw"
    /\ UNCHANGED <<raw_vars, processed_vars, error, aggregation_level, raw_files, raw_idx,
                   candidacy_pos, candidates, results_data, locations_data,
                   list_results_data>>

\* _pre_processing_data: the listing of the raw folder
ListRawFiles ==
    /\ pc = "list_raw"
    /\ fs_ops' = Append(fs_ops,
          [op |-> "listdir", path |-> get_state_folders_path("raw") \o <<data_name>>])
    /\ pc' = "pre_processing"
    /\ UNCHANGED <<raw_vars, processed_vars, error, aggregation_level, state, cur_dir, folders,
                   raw_files, raw_idx, candidacy_pos, candidates, results_data,
                   locations_data, list_results_data>>

\* _pre_processing_data: one turn of the loop, from the read to the append
PreProcessFile ==
    /\ pc = "pre_processing"
    /\ raw_idx < Len(raw_files)
    /\ LET res == pre_processing_file(raw_files[raw_idx + 1], candidacy_pos, candidates)
       IN /\ results_data' = res.frame
          /\ error' = res.err
          /\ list_results_data' = IF res.err = "none"
                                  THEN Append(list_results_data, res.frame)
                                  ELSE list_results_data
          /\ pc' = IF res.err # "none" THEN "failed"
                   ELSE IF raw_idx + 1 = Len(raw_files) THEN "concatenate"
                   ELSE "pre_processing"
    /\ raw_idx' = raw_idx + 1
    /\ fs_ops' = Append(fs_ops,
          [op |-> "read",
           path |-> get_process_folder_path("raw")
                      \o <<data_name, RawFileNames[raw_idx + 1]>>])
    /\ UNCHANGED <<raw_vars, processed_vars, aggregation_level, state, cur_dir, folders,
                   raw_files, candidacy_pos, candidates, locations_data>>

\* run(): self._concatenate_list_results_data()
ConcatenateListResultsData ==
    /\ pc = "concatenate"
    /\ results_data' = concat(list_results_data)
    /\ list_results_data' = <<>>
    /\ pc' = "aggregate"
    /\ UNCHANGED <<raw_vars, processed_vars, error, aggregation_level, fs_ops, state, cur_dir,
                   folders, raw_files, raw_idx, candidacy_pos, candidates,
                   locations_data>>

\* run(): self._aggregate_data()
AggregateData ==
    /\ pc = "aggregate"
    /\ LET res == aggregate_data(results_data, aggregation_level)
       IN /\ results_data' = res.frame
          /\ error' = res.err
          /\ pc' = IF res.err = "none" THEN "shares" ELSE "failed"
    /\ input_data' = results_data
    /\ UNCHANGED <<raw_vars, global_cols, global_threshold, interim_files, filenames,
                   file_idx, processed_data, na_threshold, aggregation_level,
                   fs_ops, state, cur_dir, folders, raw_files, raw_idx,
                   candidacy_pos, candidates, locations_data, list_results_data>>

\* run(): self._create_shares_attributes()
CreateSharesAttributes ==
    /\ pc = "shares"
    /\ LET res == create_shares_attributes(results_data)
       IN /\ results_data' = res.frame
          /\ error' = res.err
          /\ pc' = IF res.err = "none" THEN "merge_locations" ELSE "failed"
    /\ UNCHANGED <<raw_vars, processed_vars, aggregation_level, fs_ops, state, cur_dir,
                   folders, raw_files, raw_idx, candidacy_pos, candidates,
                   locations_data, list_results_data>>

\* run(): self._merge_results_and_location_data()
MergeResultsAndLocationData ==
    /\ pc = "merge_locations"
    /\ fs_ops' = Append(fs_ops,
          [op |-> "read",
           path |-> get_process_folder_path("processed")
                      \o <<"locations", aggregation_level,
                           "locations_" \o geocoding_api \o ".csv">>])
    /\ locations_data' = LocationsFile(aggregation_level)
    /\ results_data' = merge_results_and_location_data(
                          results_data, locations_data', aggregation_level)
    /\ pc' = "remove_cols"
    /\ UNCHANGED <<raw_vars, processed_vars, error, aggregation_level, state, cur_dir, folders,
                   raw_files, raw_idx, candidacy_pos, candidates, list_results_data>>

\* run(): self._remove_unecessary_cols()
RemoveUnecessaryCols ==
    /\ pc = "remove_cols"
    /\ results_data' = remove_unecessary_cols(results_data, aggregation_level)
    /\ pc' = "save"
    /\ UNCHANGED <<raw_vars, processed_vars, error, aggregation_level, fs_ops, state, cur_dir,
                   folders, raw_files, raw_idx, candidacy_pos, candidates,
                   locations_data, list_results_data>>

\* run(): self._save_results_data()
SaveResultsData ==
    /\ pc = "save"
    /\ fs_ops' = Append(fs_ops,
          [op |-> "write", path |-> cur_dir \o <<"data_" \o geocoding_api \o ".csv">>])
    /\ pc' = "saved"
    /\ UNCHANGED <<raw_vars, processed_vars, error, aggregation_level, state, cur_dir, folders,
                   raw_files, raw_idx, candidacy_pos, candidates, results_data,
                   locations_data, list_results_data>>

\* run(): self._generate_pandas_profiling(); reset_index(drop=True) leaves
\* the columns as they are
GeneratePandasProfiling ==
    /\ pc = "saved"
    /\ fs_ops' = Append(fs_ops,
          [op |-> "write", path |-> cur_dir \o <<"profiling.html">>])
    /\ pc' = "profiled"
    /\ UNCHANGED <<raw_vars, processed_vars, error, aggregation_level, state, cur_dir, folders,
                   raw_files, raw_idx, candidacy_pos, candidates, results_data,
                   locations_data, list_results_data>>

InitInterim ==
    /\ RawIdle
    /\ pc = "new"
    /\ error = "none"
    /\ aggregation_level \in InterimLevels
    /\ global_cols = 0
    /\ global_threshold = Rat(1, 2)
    /\ na_threshold = 0
    /\ interim_files = <<>>
    /\ filenames = <<>>
    /\ file_idx = 0
    /\ processed_data = EmptyFrame
    /\ input_data = EmptyFrame
    /\ fs_ops = <<>>
    /\ state = "none"
    /\ cur_dir = <<>>
    /\ folders = Prefixes(get_state_folders_path("raw") \o <<data_name>>)
                 \cup Prefixes(get_process_folder_path("processed")
                                 \o <<"locations", aggregation_level>>)
    /\ raw_files \in RawFolders
    /\ raw_idx = 0
    /\ candidacy_pos = "president"
    /\ candidates \in CandidateLists
    /\ results_data = EmptyFrame
    /\ locations_data = EmptyFrame
    /\ list_results_data = <<>>

NextInterim ==
    \/ InterimMakeFolders
    \/ ListRawFiles
    \/ PreProcessFile
    \/ ConcatenateListResultsData
    \/ AggregateData
    \/ CreateSharesAttributes
    \/ MergeResultsAndLocationData
    \/ RemoveUnecessaryCols
    \/ SaveResultsData
    \/ GeneratePandasProfiling

SpecInterim == InitInterim /\ [][NextInterim]_vars

(***************************************************************************)
(* Interim: properties                                                     *)
(***************************************************************************)
\* the rows of a raw table that reach the pivot of _get_votes_by_candidates
Indexed(raw) ==
    drop_na_candidates(filter_by_candidacy_pos(rename_cols(raw).frame, candidacy_pos))

\* the same section and the same candidate id on two rows
HasRepeatedSourceRow(raw) ==
    LET df == Indexed(raw)
    IN \E r1, r2 \in 1..Len(df.data) :
          /\ r1 < r2
          /\ UniqueKey(df, r1) = UniqueKey(df, r2)
          /\ Cell(df, r1, ID_CANDIDATE_COL) = Cell(df, r2, ID_CANDIDATE_COL)

\* the raw table with every row that repeats an earlier row left out
WithoutRepeatedRows(raw) ==
    KeepRows(raw, {r \in 1..Len(raw.data) :
                     \A q \in 1..(r - 1) : raw.data[q] # raw.data[r]})

\* C9: a raw file that holds a source row twice (same polling section, same
\* candidate id) is processed without failure, and its table is the one the
\* file gives with the repeated row counted once (keep first).
C9_DuplicateRowsDeduplicated ==
    \A f \in 1..raw_idx :
        LET once == pre_processing_file(WithoutRepeatedRows(raw_files[f]),
                                        candidacy_pos, candidates)
        IN (HasRepeatedSourceRow(raw_files[f]) /\ once.err = "none") =>
              /\ ~(pc = "failed" /\ error = "ValueError")
              /\ pc \in {"pre_processing", "concatenate"} =>
                    /\ Len(list_results_data) >= f
                    /\ list_results_data[f] = once.frame

\* the pivot is what fails: every ValueError of the loop comes from a file
\* with a repeated source row, and every such file ends the run with it
RepeatedSourceRowRaisesValueError ==
    /\ error = "ValueError" => HasRepeatedSourceRow(raw_files[raw_idx])
    /\ \A f \in 1..raw_idx :
          HasRepeatedSourceRow(raw_files[f]) =>
              (f = raw_idx /\ pc = "failed" /\ error = "ValueError")

EndsWith(name, suffix) ==
    /\ Len(name) >= Len(suffix)
    /\ SubSeq(name, Len(name) - Len(suffix) + 1, Len(name)) = suffix

\* float64 sum of a sequence of cells, NaN not skipped
RECURSIVE SumCells(_)
SumCells(cells) ==
    IF cells = <<>> THEN Num(0) ELSE FAdd(Head(cells), SumCells(Tail(cells)))

\* the vote columns of the dataset: the candidates, blank and null
VoteCols(df) ==
    DropAt(df.cols, {i \in 1..Len(df.cols) :
                       ~ \/ df.cols[i] \in {BLANK_COL, NULL_COL}
                         \/ /\ Contains(CANDIDATE_TAG, df.cols[i])
                            /\ ~EndsWith(df.cols[i], SHARE_SUFFIX)})

\* candidate shares + blank share + null share of row r
SumOfShares(df, r) ==
    SumCells([i \in 1..Len(VoteCols(df)) |-> Cell(df, r, VoteCols(df)[i] \o SHARE_SUFFIX)])

\* the source rows (file, row) counted for row r of the dataset: president
\* rows with a candidate id whose merging-key cells are those of r
SourceRows(r) ==
    {fr \in UNION {{<<f, q>> : q \in 1..Len(Indexed(raw_files[f]).data)} :
                     f \in 1..Len(raw_files)} :
        \A i \in 1..Len(get_merging_keys(aggregation_level)) :
            Cell(Indexed(raw_files[fr[1]]), fr[2], get_merging_keys(aggregation_level)[i])
              = Cell(results_data, r, get_merging_keys(aggregation_level)[i])}

SourceCell(fr, name) == Cell(Indexed(raw_files[fr[1]]), fr[2], name)

\* every votable with votes in the source rows of r is a configured
\* candidate, blank or null
Covered(r) ==
    \A fr \in SourceRows(r) :
        SourceCell(fr, ID_CANDIDATE_COL).n \in
            SeqToSet(candidates) \cup {MAP_BLANK_NULL.BLANK, MAP_BLANK_NULL.NULL}

RECURSIVE VotesOf(_)
VotesOf(S) ==
    IF S = {} THEN 0
    ELSE LET fr == CHOOSE x \in S : TRUE
         IN SourceCell(fr, VOTES_COL).n + VotesOf(S \ {fr})

\* the turnout of row r is the number of votes its source rows hold
TurnoutIsVotesCast(r) ==
    Cell(results_data, r, TURNOUT_COL) = Num(VotesOf(SourceRows(r)))

\* the sections the source rows of r belong to
SourceSections(r) ==
    {UniqueKey(Indexed(raw_files[fr[1]]), fr[2]) : fr \in SourceRows(r)}

\* C10 as stated: in every row of the saved dataset with nonzero turnout
\* (read in its favour: a turnout that is the number of votes cast) the
\* candidate shares, the blank share and the null share add up to 100,
\* whatever the configured candidates list.
C10_SharesSumTo100AnyList ==
    pc = "saved" =>
        \A r \in 1..Len(results_data.data) :
            (Cell(results_data, r, TURNOUT_COL) # Num(0) /\ TurnoutIsVotesCast(r)) =>
                SumOfShares(results_data, r) = Num(100)

\* C10, amended: in every row of the saved dataset each share is
\* 100 * votes / turnout of the aggregated row, turnout% and abstention% are
\* 100 * turnout / electorate and 100 * abstentions / electorate, and with a
\* nonzero turnout that is the number of votes cast the shares add up to 100
\* when the candidates list covers every candidate id with votes in the row.
C10_SharesSumTo100WhenCovered ==
    pc = "saved" =>
        \A r \in 1..Len(results_data.data) :
            LET df == results_data
                turnout == Cell(df, r, TURNOUT_COL)
                electorate == Cell(df, r, ELECTORATE_COL)
            IN /\ \A i \in 1..Len(VoteCols(df)) :
                     Cell(df, r, VoteCols(df)[i] \o SHARE_SUFFIX)
                       = FDiv(FMul(Num(100), Cell(df, r, VoteCols(df)[i])), turnout)
               /\ Cell(df, r, TURNOUT_COL \o SHARE_SUFFIX)
                     = FDiv(FMul(Num(100), turnout), electorate)
               /\ Cell(df, r, ABSTENTIONS_COL \o SHARE_SUFFIX)
                     = FDiv(FMul(Num(100), Cell(df, r, ABSTENTIONS_COL)), electorate)
               /\ (turnout # Num(0) /\ TurnoutIsVotesCast(r) /\ Covered(r)) =>
                     SumOfShares(df, r) = Num(100)

\* a saved row summed over two sections, both candidates configured and
\* voted for, whose shares add up to 100
C10_Witness ==
    /\ pc = "saved"
    /\ Len(candidates) = 2
    /\ \E r \in 1..Len(results_data.data) :
          /\ Cardinality(SourceSections(r)) = 2
          /\ Cell(results_data, r, TURNOUT_COL) # Num(0)
          /\ TurnoutIsVotesCast(r)
          /\ Covered(r)
          /\ \A i \in 1..Len(VoteCols(results_data)) :
                Cell(results_data, r, VoteCols(results_data)[i]) # Num(0)
          /\ SumOfShares(results_data, r) = Num(100)

\* a row with votes for a candidate the list leaves out falls short of 100
UncoveredRowsFallShort ==
    pc = "saved" =>
        \A r \in 1..Len(results_data.data) :
            (Cell(results_data, r, TURNOUT_COL) # Num(0)
               /\ TurnoutIsVotesCast(r) /\ ~Covered(r)) =>
                FLess(SumOfShares(results_data, r), Num(100))

\* Interim.run with a level outside its merging keys makes its folders and
\* pre-processes the raw files before it fails; it never saves
InterimUnknownLevelFailsLate ==
    aggregation_level \notin MergingLevels =>
        /\ pc \notin {"shares", "merge_locations", "remove_cols", "save", "saved",
                      "profiled"}
        /\ pc = "failed" =>
              /\ error \in {"KeyError", "ValueError"}
              /\ \E i \in 1..Len(fs_ops) : fs_ops[i].op = "mkdir"

\* the merging-key cells of row r
KeyCells(df, r) ==
    [i \in 1..Len(get_merging_keys(aggregation_level)) |->
        Cell(df, r, get_merging_keys(aggregation_level)[i])]

HasKey(df, r) == \A i \in 1..Len(KeyCells(df, r)) : ~IsNaN(KeyCells(df, r)[i])

\* the policy of column i is "sum": no text cell and no _ID_ in the name
SumPolicy(df, i) ==
    /\ \A r \in 1..Len(df.data) : df.data[r][i].k # "str"
    /\ ~Contains(ID_TAG, df.cols[i])

\* the sum of the counts column i holds in the rows of S, missing cells aside
RECURSIVE CountSum(_, _, _)
CountSum(df, S, i) ==
    IF S = {} THEN 0
    ELSE LET r == CHOOSE x \in S : TRUE
         IN (IF IsNaN(df.data[r][i]) THEN 0 ELSE df.data[r][i].n)
            + CountSum(df, S \ {r}, i)

\* one row per key value, sums and first values as the policies say
AggregatedByKey(pre, out) ==
    /\ out.cols = pre.cols
    /\ \A g1, g2 \in 1..Len(out.data) :
          KeyCells(out, g1) = KeyCells(out, g2) => g1 = g2
    /\ {KeyCells(out, g) : g \in 1..Len(out.data)}
          = {KeyCells(pre, q) : q \in {x \in 1..Len(pre.data) : HasKey(pre, x)}}
    /\ \A g \in 1..Len(out.data) : \A i \in 1..Len(out.cols) :
          LET members == {q \in 1..Len(pre.data) : KeyCells(pre, q) = KeyCells(out, g)}
              first == CHOOSE q \in members : \A x \in members : q <= x
          IN IF SumPolicy(pre, i)
             THEN out.data[g][i] = Num(CountSum(pre, members, i))
             ELSE out.data[g][i] = pre.data[first][i]

\* the total of every summed column is the same before and after
TotalsUnchanged(pre, out) ==
    \A i \in 1..Len(pre.cols) :
        SumPolicy(pre, i) =>
            CountSum(out, 1..Len(out.data), i) = CountSum(pre, 1..Len(pre.data), i)

\* C11 as stated: _aggregate_data returns one row per distinct value of the
\* merging keys, a summed column holds in each row the sum over the rows
\* with that key, every other column the first value of the group, and the
\* total of every summed column over the dataset is unchanged.
C11_AggregationKeepsTotals ==
    pc = "shares" =>
        /\ AggregatedByKey(input_data, results_data)
        /\ TotalsUnchanged(input_data, results_data)

\* C11, amended: one row per distinct value of the merging keys among the
\* rows whose key cells are all present, sums and first values as stated;
\* rows with a missing key cell are left out, so the totals of the summed
\* columns are unchanged when no row lacks a key cell.
C11_AggregationByPresentKeys ==
    pc = "shares" =>
        /\ AggregatedByKey(input_data, results_data)
        /\ (\A q \in 1..Len(input_data.data) : HasKey(input_data, q)) =>
              TotalsUnchanged(input_data, results_data)

\* two rows with the same key summed into one, next to a row of another key
C11_Witness ==
    /\ pc = "shares"
    /\ Len(results_data.data) = 2
    /\ Len(input_data.data) = 3
    /\ \A q \in 1..Len(input_data.data) : HasKey(input_data, q)
    /\ Cell(results_data, 1, ELECTORATE_COL)
          = FAdd(Cell(input_data, 1, ELECTORATE_COL),
                 Cell(input_data, 2, ELECTORATE_COL))

\* the rows of a file whose city name column was dropped for a missing cell
\* are not in the aggregated dataset
RowsWithoutKeyAreDropped ==
    pc = "shares" =>
        \A q \in 1..Len(input_data.data) :
            ~HasKey(input_data, q) =>
                \A g \in 1..Len(results_data.data) :
                    Cell(results_data, g, UNIQUE_ID[1]) # Cell(input_data, q, UNIQUE_ID[1])

(***************************************************************************)
(* Stages and the folder trees they read                                   *)
(***************************************************************************)
\* directory dir is path or an ancestor of it
IsUnder(path, dir) == Len(dir) <= Len(path) /\ SubSeq(path, 1, Len(dir)) = dir

\* the stage whose output a stage is fed with
PreviousStage(st) == IF st = "processed" THEN "interim" ELSE "raw"

\* the paths the stage has listed or read so far
PathsRead == {fs_ops[i].path : i \in {j \in 1..Len(fs_ops) :
                                        fs_ops[j].op \in {"listdir", "read"}}}

\* C12: a stage reads only from the folder tree of the stage before it: the
\* interim stage from the raw tree, the processed stage from the interim
\* tree; it reads nothing from its own tree or from the tree of a later stage.
C12_StagesReadPreviousTree ==
    \A path \in PathsRead :
        IsUnder(path, get_state_folders_path(PreviousStage(state)))

\* the processed stage lists and reads the interim folder of its level only
ProcessedReadsInterimTree ==
    \A path \in PathsRead :
        IsUnder(path, get_data_name_folders_path("interim") \o <<aggregation_level>>)

\* what the interim stage reads outside the raw tree is the locations file
\* of the processed tree
InterimReadsRawTreeAndLocations ==
    \A path \in PathsRead :
        \/ IsUnder(path, get_state_folders_path("raw") \o <<data_name>>)
        \/ /\ pc \in {"remove_cols", "save", "saved", "profiled"}
           /\ path = get_process_folder_path("processed")
                       \o <<"locations", aggregation_level,
                            "locations_" \o geocoding_api \o ".csv">>

(***************************************************************************)
(* Interim._rename_cols on any raw table                                   *)
(***************************************************************************)
\* the columns a raw table may hold: those of an export, a column pandas
\* named itself, and a column that bears a canonical name already
ColumnPool == RawCols \o << <<"U", "n", "n", "a", "m", "e", "d", ":", " ", "0">>, UF_COL >>

\* the columns of the pool a raw table may lack
OptionalCols ==
    {RawCols[1], MAP_COL_RENAME[1].raw, MAP_COL_RENAME[4].raw, MAP_COL_RENAME[12].raw,
     ColumnPool[Len(ColumnPool) - 1], ColumnPool[Len(ColumnPool)]}

Reversed(s) == [i \in 1..Len(s) |-> s[Len(s) + 1 - i]]

\* a one-row table with the columns of the pool outside lacking, each cell
\* the position of its column in the pool
RawTable(lacking, backwards) ==
    LET at == SortedSeq({i \in 1..Len(ColumnPool) : ColumnPool[i] \notin lacking})
        pos == IF backwards THEN Reversed(at) ELSE at
    IN [cols |-> [k \in 1..Len(pos) |-> ColumnPool[pos[k]]],
        data |-> << [k \in 1..Len(pos) |-> Num(pos[k])] >>]

\* _read_results_csv followed by _rename_cols
RenameCols ==
    /\ pc = "table_read"
    /\ LET res == rename_cols(results_data)
       IN /\ results_data' = res.frame
          /\ error' = res.err
          /\ pc' = IF res.err = "none" THEN "cols_renamed" ELSE "rename_failed"
    /\ input_data' = results_data
    /\ UNCHANGED <<raw_vars, global_cols, global_threshold, interim_files, filenames,
                   file_idx, processed_data, na_threshold, aggregation_level,
                   fs_ops, state, cur_dir, folders, raw_files, raw_idx,
                   candidacy_pos, candidates, locations_data, list_results_data>>

\* _rename_cols applied to its own result
RenameColsAgain ==
    /\ pc = "cols_renamed"
    /\ LET res == rename_cols(results_data)
       IN /\ results_data' = res.frame
          /\ error' = res.err
          /\ pc' = IF res.err = "none" THEN "cols_renamed_twice" ELSE "rename_failed"
    /\ input_data' = results_data
    /\ UNCHANGED <<raw_vars, global_cols, global_threshold, interim_files, filenames,
                   file_idx, processed_data, na_threshold, aggregation_level,
                   fs_ops, state, cur_dir, folders, raw_files, raw_idx,
                   candidacy_pos, candidates, locations_data, list_results_data>>

InitRename ==
    /\ RawIdle
    /\ pc = "table_read"
    /\ error = "none"
    /\ aggregation_level = "city"
    /\ global_cols = 0
    /\ global_threshold = Rat(1, 2)
    /\ na_threshold = 0
    /\ interim_files = <<>>
    /\ filenames = <<>>
    /\ file_idx = 0
    /\ processed_data = EmptyFrame
    /\ input_data = EmptyFrame
    /\ fs_ops = <<>>
    /\ state = "interim"
    /\ cur_dir = <<>>
    /\ folders = {}
    /\ raw_files = <<>>
    /\ raw_idx = 0
    /\ candidacy_pos = "president"
    /\ candidates = <<>>
    /\ results_data \in {RawTable(lacking, backwards) :
                           lacking \in SUBSET OptionalCols, backwards \in BOOLEAN}
    /\ locations_data = EmptyFrame
    /\ list_results_data = <<>>

NextRename ==
    \/ RenameCols
    \/ RenameColsAgain

SpecRename == InitRename /\ [][NextRename]_vars

\* the canonical names, in map order
CanonicalCols == [i \in 1..Len(MAP_COL_RENAME) |-> MAP_COL_RENAME[i].new]

\* every raw column named in the map is a column of df
AllRawColsPresent(df) ==
    \A i \in 1..Len(MAP_COL_RENAME) : MAP_COL_RENAME[i].raw \in ColNames(df)

\* a canonical column is absent once df is renamed
CanonicalColMissing(df) ==
    \E i \in 1..Len(MAP_COL_RENAME) :
        MAP_COL_RENAME[i].new \notin {renamed_col(df.cols[k]) : k \in 1..Len(df.cols)}

\* C13: _rename_cols on a raw table that holds every raw column of the map
\* returns exactly the canonical columns in map order; with a canonical
\* column missing after renaming it fails with SchemaMismatchError; applied
\* to its own result it changes no column name, no canonical name being a
\* key of the map.
C13_RenameCols ==
    /\ (pc = "cols_renamed" /\ AllRawColsPresent(input_data)) =>
          results_data.cols = CanonicalCols
    /\ (pc \in {"cols_renamed", "rename_failed"} /\ error = "none") =>
          ~CanonicalColMissing(input_data)
    /\ (pc = "rename_failed" /\ CanonicalColMissing(input_data)) =>
          error = "SchemaMismatchError"
    /\ pc = "cols_renamed_twice" => results_data.cols = input_data.cols
    /\ \A i, j \in 1..Len(MAP_COL_RENAME) : MAP_COL_RENAME[i].new # MAP_COL_RENAME[j].raw

\* what _rename_cols does: KeyError exactly when a canonical column is
\* missing after renaming; otherwise the canonical columns in map order,
\* a name borne by two columns (a raw column next to one already named
\* canonically) kept twice; columns outside the map dropped; a second
\* application changes nothing
RenameColsRaisesKeyError ==
    /\ pc \in {"cols_renamed", "rename_failed"} =>
          (error = "KeyError") = CanonicalColMissing(input_data)
    /\ pc = "rename_failed" => error = "KeyError"
    /\ pc = "cols_renamed" =>
          /\ {results_data.cols[k] : k \in 1..Len(results_data.cols)}
                = {CanonicalCols[i] : i \in 1..Len(CanonicalCols)}
          /\ (\A k \in 1..Len(input_data.cols) :
                 input_data.cols[k] \notin {CanonicalCols[i] : i \in 1..Len(CanonicalCols)})
                => results_data.cols = CanonicalCols
    /\ pc = "cols_renamed_twice" => results_data = input_data

(***************************************************************************)
(* Claims on Processed._separate_cols_by_description                       *)
(***************************************************************************)
\* the columns _get_income_cols classifies as income
IncomeClassified(c) == c \in SeqToSet(get_income_cols(input_data))

HasPersonTag(c) == Contains(PERSON_PT_TAG, c) \/ Contains(RESPONSIBLE_PT_TAG, c)

HasDomicileTag(c) == \E i \in 1..Len(DOMICILE_TAGS) : Contains(DOMICILE_TAGS[i], c)

\* C14: _separate_cols_by_description puts no column in two of the groups
\* income_person, income_domicile, domicile, person, and leaves no non-geo,
\* non-basic column out of all groups; so the by-total loop divides every
\* such column by one total, once.
C14_ExactlyOneGroup ==
    pc = "ratios" =>
        \A c \in ColNames(input_data) :
           /\ Cardinality(GroupsOf(c)) <= 1
           /\ (~Contains(GEO_TAG, c) /\ ~Contains(BASIC_TAG, c)) =>
                 /\ Cardinality(GroupsOf(c)) = 1
                 /\ \A g \in GroupsOf(c) :
                       Column(processed_data, c) =
                          Column(normalize_by_total(input_data, <<c>>, TOTAL_COLS[g]), c)

\* the groups of a column as the code forms them: a column not classified as
\* income is in one group; an income column is in income_person and
\* income_domicile and domicile according to the tags of its name, which
\* may be two or three groups, or none
GroupsFollowTags ==
    pc = "ratios" =>
        \A c \in ColNames(input_data) :
           (~Contains(GEO_TAG, c) /\ ~Contains(BASIC_TAG, c)) =>
              IF IncomeClassified(c)
              THEN GroupsOf(c) =
                      {g \in {"income_person"} : HasPersonTag(c)}
                      \cup {g \in {"income_domicile"} : Contains(DOMICILE_PT_TAG, c)}
                      \cup {g \in {"domicile"} : HasDomicileTag(c)}
              ELSE GroupsOf(c) =
                      IF HasDomicileTag(c) THEN {"domicile"} ELSE {"person"}

\* an income column whose name bears none of the tags is left as it was
UngroupedIncomeColumnUntouched ==
    pc = "ratios" =>
        \A c \in ColNames(input_data) :
           GroupsOf(c) = {} => Column(processed_data, c) = Column(input_data, c)

(***************************************************************************)
(* Claims on the pruning of _normalize_data                                *)
(***************************************************************************)
\* every value of column c of df exceeds the threshold
Saturated(df, c) ==
    \A r \in 1..Len(df.data) : FLess(global_threshold, Column(df, c)[r])

\* the columns of df, the dataset the by-total loop left, that the step keeps
\* when global_cols is off
KeptWithoutGlobal(df) ==
    LET Kept(c) == /\ ~Contains(BASIC_TAG, c)
                   /\ c \notin SeqToSet(TotalColsList)
                   /\ ~(Contains(CENSUS_TAG, c) /\ Saturated(df, c))
    IN SelectSeq(df.cols, Kept)

\* C15: with global_cols off, after _normalize_data the dataset holds no
\* _BASICO_ column, none of the four total columns and no census column all
\* of whose by-total values exceed global_threshold, and every other column
\* it held before; with global_cols on no column is dropped.
C15_GlobalColsPruned ==
    pc = "normalized" =>
        processed_data.cols =
           IF global_cols = 1 THEN input_data.cols
           ELSE KeptWithoutGlobal(AfterRatios)

\* a dataset with two census columns beside the totals, pruned with
\* global_cols off: one is saturated and dropped, the other is kept
C15_Witness ==
    /\ pc = "normalized"
    /\ global_cols = 0
    /\ LET after == AfterRatios
       IN /\ \E c \in ColNames(input_data) :
                /\ Contains(CENSUS_TAG, c) /\ c \notin SeqToSet(TotalColsList)
                /\ Saturated(after, c)
                /\ c \notin ColNames(processed_data)
          /\ \E c \in ColNames(input_data) :
                Contains(CENSUS_TAG, c) /\ c \in ColNames(processed_data)

\* the pruning ends in a TypeError only with global_cols off and a tested
\* column that holds a missing cell
PruningTypeErrorNeedsMissingCell ==
    (pc = "failed" /\ error = "TypeError") =>
        /\ global_cols = 0
        /\ \E c \in ColNames(processed_data) :
              /\ Contains(CENSUS_TAG, c)
              /\ \E r \in 1..Len(input_data.data) : is_na(input_data, InputGroups, c, r)

(***************************************************************************)
(* Processed._remove_duplicated_cols on any normalized dataset             *)
(***************************************************************************)
\* a two-row normalized dataset: the key and three census columns
DedupFrame(a, b, c) ==
    [cols |-> <<get_aggregation_level_id_col("city"),
                ExtraCols[2], ExtraCols[3], ExtraCols[5]>>,
     data |-> [r \in TwoRows |-> <<Num(r), a[r], b[r], c[r]>>]]

InitDedup ==
    /\ RawIdle
    /\ pc = "normalized"
    /\ error = "none"
    /\ aggregation_level = "city"
    /\ global_cols = 0
    /\ global_threshold = Rat(1, 2)
    /\ interim_files = <<>>
    /\ filenames = <<>>
    /\ file_idx = 0
    /\ \E a \in CountVectors, b \in CountVectors, c \in CountVectors :
          input_data = DedupFrame(a, b, c)
    /\ processed_data = input_data
    /\ fs_ops = <<>>
    /\ InterimIdle
    /\ state = "processed"
    /\ cur_dir = <<>>
    /\ folders = {}
    /\ na_threshold = 0

NextDedup == RemoveDuplicatedCols

SpecDedup == InitDedup /\ [][NextDedup]_vars

\* column i of df, top to bottom
ColumnAt(df, i) == [r \in 1..Len(df.data) |-> df.data[r][i]]

\* C16: after _remove_duplicated_cols no two remaining columns are equal in
\* every row; of the columns that were equal in every row exactly the first
\* in column order remains, with its values; a column that differs from
\* every other column in some row is not removed.
C16_FirstOfEqualColumnsKept ==
    pc = "deduplicated" =>
        LET firsts == {i \in 1..Len(input_data.cols) :
                          \A j \in 1..(i - 1) :
                             ColumnAt(input_data, j) # ColumnAt(input_data, i)}
        IN /\ \A i, j \in 1..Len(processed_data.cols) :
                 i # j => ColumnAt(processed_data, i) # ColumnAt(processed_data, j)
           /\ processed_data = DropColumnsAt(input_data,
                                  (1..Len(input_data.cols)) \ firsts)
           /\ \A i \in 1..Len(input_data.cols) :
                 (\A j \in 1..Len(input_data.cols) :
                     j # i => ColumnAt(input_data, j) # ColumnAt(input_data, i))
                 => input_data.cols[i] \in ColNames(processed_data)

\* three columns of which the second and the third are equal and the first
\* is not: the first two remain
C16_Witness ==
    /\ pc = "deduplicated"
    /\ Len(input_data.cols) = Len(processed_data.cols) + 1
    /\ ColumnAt(input_data, 3) = ColumnAt(input_data, 4)
    /\ ColumnAt(input_data, 2) # ColumnAt(input_data, 3)
    /\ processed_data.cols = SubSeq(input_data.cols, 1, 3)
    /\ \E r \in TwoRows : IsNaN(ColumnAt(input_data, 3)[r])

(***************************************************************************)
(* Claims on the column names during the merge                             *)
(***************************************************************************)
\* the positions of df that bear a name another position bears too
RepeatedNames(df) ==
    {i \in 1..Len(df.cols) : \E j \in 1..Len(df.cols) : j # i /\ df.cols[j] = df.cols[i]}

\* C17: in every state of the merge loop of _merge_data, after each file is
\* merged, and in the final merged dataset, no two columns of the
\* accumulated dataset bear the same name, whatever the number of files.
C17_ColumnNamesUnique == RepeatedNames(processed_data) = {}

\* a name is borne twice only inside the loop, only by [DELETE] columns, and
\* only once a third file that defines a colliding column has been merged;
\* the final merged dataset has unique names
RepeatedNamesAreDeleteMarked ==
    /\ \A i \in RepeatedNames(processed_data) :
          /\ Contains(DELETE_TAG, processed_data.cols[i])
          /\ pc = "merging"
          /\ file_idx >= 3
          /\ \E c \in Colliding :
                /\ processed_data.cols[i] = c \o DELETE_TAG
                /\ Cardinality(Definers(c)) >= 3
    /\ pc = "merged" => RepeatedNames(processed_data) = {}

(***************************************************************************)
(* Raw: file names                                                         *)
(***************************************************************************)
LowerLetters == <<"a", "b", "c", "d", "e", "f", "g", "h", "i", "j", "k", "l", "m", "n", "o", "p", "q", "r", "s", "t", "u", "v", "w", "x", "y", "z">>
UpperLetters == <<"A", "B", "C", "D", "E", "F", "G", "H", "I", "J", "K", "L", "M", "N", "O", "P", "Q", "R", "S", "T", "U", "V", "W", "X", "Y", "Z">>

\* str.upper
Upper(name) ==
    [i \in 1..Len(name) |->
        IF \E k \in 1..Len(LowerLetters) : LowerLetters[k] = name[i]
        THEN UpperLetters[CHOOSE k \in 1..Len(LowerLetters) : LowerLetters[k] = name[i]]
        ELSE name[i]]

\* name.split(ch)[0]
Before(name, ch) ==
    IF \E i \in 1..Len(name) : name[i] = ch
    THEN SubSeq(name, 1, (CHOOSE i \in 1..Len(name) :
                             name[i] = ch /\ \A j \in 1..(i - 1) : name[j] # ch) - 1)
    ELSE name

\* os.path.basename of a zip member: what follows the last "/"
basename(member) ==
    IF \E i \in 1..Len(member) : member[i] = "/"
    THEN SubSeq(member, (CHOOSE i \in 1..Len(member) :
                            member[i] = "/" /\ \A j \in (i + 1)..Len(member) : member[j] # "/") + 1,
                Len(member))
    ELSE member

CSV_EXT == <<".", "c", "s", "v">>
ZIP_EXT == <<".", "z", "i", "p">>

(***************************************************************************)
(* Raw: the raw dataset folder                                             *)
(***************************************************************************)
\* an entry of the raw dataset folder: a file or a subfolder of the folder
\* itself (folder = <<>>), or a file of one of its subfolders
File(folder, name) == [folder |-> folder, name |-> name, kind |-> "file"]
Dir(name) == [folder |-> <<>>, name |-> name, kind |-> "dir"]

\* Data._get_files_in_cur_dir, cur_dir being the dataset folder or a subfolder
get_files_in_cur_dir(dir, folder) ==
    {e.name : e \in {x \in dir : x.folder = folder /\ x.kind = "file"}}

\* Data._get_folders_in_cur_dir, cur_dir being the dataset folder
get_folders_in_cur_dir(dir) ==
    {e.name : e \in {x \in dir : x.folder = <<>> /\ x.kind = "dir"}}

\* the members of the archive of that name
MembersOf(archives, name) ==
    UNION {SeqToSet(archives[i].members) :
              i \in {k \in 1..Len(archives) : archives[k].name = name}}

\* Raw._unzip_raw_data: a subfolder per file of the folder, named by what
\* precedes the first dot, and in it the .csv members under their base names
unzip_raw_data(dir, archives) ==
    LET zips == get_files_in_cur_dir(dir, <<>>)
        extracted(z) == {basename(m) : m \in {x \in MembersOf(archives, z) :
                            basename(x) # <<>> /\ EndsWith(basename(x), CSV_EXT)}}
    IN dir \cup {Dir(Before(z, ".")) : z \in zips}
           \cup UNION {{File(Before(z, "."), f) : f \in extracted(z)} : z \in zips}

\* Raw._remove_zip_files
remove_zip_files(dir) ==
    dir \ {File(<<>>, f) : f \in {x \in get_files_in_cur_dir(dir, <<>>) :
                                     EndsWith(x, ZIP_EXT)}}

\* Raw._remove_empty_folders
remove_empty_folders(dir) ==
    dir \ {Dir(d) : d \in {x \in get_folders_in_cur_dir(dir) :
                              ~\E e \in dir : e.folder = x}}

\* the new name _rename_raw_data gives a file
new_filename(old_filename) == Upper(Before(old_filename, "_") \o CSV_EXT)

\* the renames of one subfolder, in the order of its listing; os.rename
\* replaces a file that bears the new name (POSIX)
RECURSIVE rename_files(_, _)
rename_files(names, order) ==
    IF order = <<>> THEN names
    ELSE rename_files((names \ {Head(order)}) \cup {new_filename(Head(order))},
                      Tail(order))

\* one pass of the loop of _rename_raw_data: subfolder d, listed in that order
rename_folder(dir, d, order) ==
    {e \in dir : e.folder # d}
    \cup {File(d, f) : f \in rename_files(get_files_in_cur_dir(dir, d), order)}

\* Raw._rename_raw_data over the subfolders ds: every folder the loop can
\* leave, os.listdir returning the files of a subfolder in any order
RECURSIVE rename_raw_data(_, _)
rename_raw_data(dir, ds) ==
    IF ds = {} THEN {dir}
    ELSE LET d == CHOOSE x \in ds : TRUE
         IN UNION {rename_raw_data(rename_folder(dir, d, order), ds \ {d}) :
                      order \in Orders(get_files_in_cur_dir(dir, d))}

(***************************************************************************)
(* Raw.run                                                                 *)
(***************************************************************************)
\* most runs of Raw.run on one folder
MaxRuns == 2

raw_idle_vars == <<aggregation_level, global_cols, global_threshold,
                   interim_files, filenames, file_idx, processed_data,
                   input_data, na_threshold, interim_vars, site>>

\* run(): init_logger_name, init_state, _make_folders
RawMakeFolders ==
    /\ pc = "raw_new"
    /\ state' = "raw"
    /\ cur_dir' = get_data_name_folders_path("raw")
    /\ folders' = folders \cup Prefixes(get_data_name_folders_path("raw"))
    /\ fs_ops' = MkdirOps(root_path, <<region, org, year, "raw", data_name>>)
    /\ raw_before' = raw_dir
    /\ pc' = "raw_check"
    /\ UNCHANGED <<raw_idle_vars, error, links, raw_dir, runs>>

\* run(): files_exist is not empty: the warning, and nothing else
RawWarning ==
    /\ pc = "raw_check"
    /\ get_files_in_cur_dir(raw_dir, <<>>) # {}
    /\ fs_ops' = Append(fs_ops, [op |-> "warning", path |-> cur_dir])
    /\ runs' = runs + 1
    /\ pc' = "raw_done"
    /\ UNCHANGED <<raw_idle_vars, error, state, cur_dir, folders, links,
                   raw_dir, raw_before>>

\* _empty_folder_run: _download_html, _get_links
GetLinks ==
    /\ pc = "raw_check"
    /\ get_files_in_cur_dir(raw_dir, <<>>) = {}
    /\ links' = links \o [i \in 1..Len(site) |-> site[i].name]
    /\ pc' = "raw_download"
    /\ UNCHANGED <<raw_idle_vars, error, state, cur_dir, folders, fs_ops,
                   raw_dir, raw_before, runs>>

\* _empty_folder_run: _download_raw_data
DownloadRawData ==
    /\ pc = "raw_download"
    /\ IF links # <<>>
       THEN /\ raw_dir' = raw_dir \cup {File(<<>>, links[i]) : i \in 1..Len(links)}
            /\ fs_ops' = fs_ops \o [i \in 1..Len(links) |->
                                      [op |-> "download", path |-> cur_dir,
                                       name |-> links[i]]]
            /\ pc' = "raw_unzip"
            /\ UNCHANGED <<error, runs>>
       ELSE /\ error' = "SystemExit"
            /\ runs' = runs + 1
            /\ pc' = "raw_exit"
            /\ UNCHANGED <<raw_dir, fs_ops>>
    /\ UNCHANGED <<raw_idle_vars, state, cur_dir, folders, links, raw_before>>

\* _empty_folder_run: _unzip_raw_data
UnzipRawData ==
    /\ pc = "raw_unzip"
    /\ raw_dir' = unzip_raw_data(raw_dir, site)
    /\ fs_ops' = Append(fs_ops, [op |-> "unzip", path |-> cur_dir])
    /\ pc' = "raw_zips"
    /\ UNCHANGED <<raw_idle_vars, error, state, cur_dir, folders, links,
                   raw_before, runs>>

\* _empty_folder_run: _remove_zip_files
RemoveZipFiles ==
    /\ pc = "raw_zips"
    /\ raw_dir' = remove_zip_files(raw_dir)
    /\ fs_ops' = Append(fs_ops, [op |-> "remove", path |-> cur_dir])
    /\ pc' = "raw_empty_folders"
    /\ UNCHANGED <<raw_idle_vars, error, state, cur_dir, folders, links,
                   raw_before, runs>>

\* _empty_folder_run: _remove_empty_folders
RemoveEmptyFolders ==
    /\ pc = "raw_empty_folders"
    /\ raw_dir' = remove_empty_folders(raw_dir)
    /\ pc' = "raw_rename"
    /\ UNCHANGED <<raw_idle_vars, error, state, cur_dir, folders, fs_ops,
                   links, raw_before, runs>>

\* _empty_folder_run: _rename_raw_data; run() returns
RenameRawData ==
    /\ pc = "raw_rename"
    /\ raw_dir' \in rename_raw_data(raw_dir, get_folders_in_cur_dir(raw_dir))
    /\ fs_ops' = Append(fs_ops, [op |-> "rename", path |-> cur_dir])
    /\ runs' = runs + 1
    /\ pc' = "raw_done"
    /\ UNCHANGED <<raw_idle_vars, error, state, cur_dir, folders, links,
                   raw_before>>

\* the pipeline is started again: a new Raw object on the same folder
RunAgain ==
    /\ pc \in {"raw_done", "raw_exit"}
    /\ runs < MaxRuns
    /\ links' = <<>>
    /\ error' = "none"
    /\ pc' = "raw_new"
    /\ UNCHANGED <<raw_idle_vars, state, cur_dir, folders, fs_ops, raw_dir,
                   raw_before, runs>>

\* the archives a census page may link to
Archive(name, members) == [name |-> name, members |-> members]

SP_ZIP ==
    Archive(<<"S", "P", ".", "z", "i", "p">>, << <<"S", "P", "/">>, <<"S", "P", "/", "B", "a", "s", "i", "c", "o", "_", "S", "P", ".", "c", "s", "v">>, <<"S", "P", "/", "P", "e", "s", "s", "o", "a", "0", "1", "_", "S", "P", ".", "c", "s", "v">>, <<"S", "P", "/", "L", "e", "i", "a", "m", "e", ".", "x", "l", "s">> >>)
RJ_ZIP == Archive(<<"R", "J", ".", "z", "i", "p">>, << <<"B", "a", "s", "i", "c", "o", "_", "R", "J", ".", "c", "s", "v">> >>)
DOC_ZIP == Archive(<<"D", "o", "c", "u", "m", "e", "n", "t", "a", "c", "a", "o", ".", "z", "i", "p">>, << <<"L", "e", "i", "a", "m", "e", ".", "p", "d", "f">> >>)

Sites == {<<>>, <<SP_ZIP>>, <<RJ_ZIP>>, <<DOC_ZIP>>, <<SP_ZIP, RJ_ZIP>>,
          <<RJ_ZIP, DOC_ZIP>>, <<SP_ZIP, RJ_ZIP, DOC_ZIP>>}

\* what the raw dataset folder may hold before the first run: nothing, a
\* file, a subfolder with a file
FoldersAtStart ==
    {{}, {File(<<>>, <<"n", "o", "t", "e", "s", ".", "t", "x", "t">>)}, {Dir(<<"o", "l", "d">>), File(<<"o", "l", "d">>, <<"O", "L", "D", ".", "C", "S", "V">>)}}

InitRaw ==
    /\ pc = "raw_new"
    /\ error = "none"
    /\ aggregation_level = "city"
    /\ global_cols = 0
    /\ global_threshold = Rat(1, 2)
    /\ na_threshold = 0
    /\ interim_files = <<>>
    /\ filenames = <<>>
    /\ file_idx = 0
    /\ processed_data = EmptyFrame
    /\ input_data = EmptyFrame
    /\ fs_ops = <<>>
    /\ state = "none"
    /\ cur_dir = <<>>
    /\ folders = {}
    /\ InterimIdle
    /\ site \in Sites
    /\ links = <<>>
    /\ raw_dir \in FoldersAtStart
    /\ raw_before = {}
    /\ runs = 0

NextRaw ==
    \/ RawMakeFolders
    \/ RawWarning
    \/ GetLinks
    \/ DownloadRawData
    \/ UnzipRawData
    \/ RemoveZipFiles
    \/ RemoveEmptyFolders
    \/ RenameRawData
    \/ RunAgain

SpecRaw == InitRaw /\ [][NextRaw]_vars

(***************************************************************************)
(* Claims on Raw.run                                                       *)
(***************************************************************************)
\* the run in progress, or the one that just returned, has downloaded
Downloaded == \E i \in 1..Len(fs_ops) : fs_ops[i].op = "download"

\* the run has passed its test of the folder
PastCheck == pc \notin {"raw_new", "raw_check"}

\* the run in progress, or the one that just returned, is not the first
LaterRun ==
    /\ PastCheck
    /\ IF pc \in {"raw_done", "raw_exit"} THEN runs >= 2 ELSE runs >= 1

\* a run has left extracted files in subfolders of the folder
HeldExtractedFiles(dir) == \E e \in dir : e.kind = "file" /\ e.folder # <<>>

\* C18: Raw.run downloads only when the raw dataset folder is empty, and
\* otherwise only logs a warning; once a run has left the extracted CSVs in
\* their subfolders, a later run downloads nothing and changes no file.
C18_RerunIsNoOp ==
    /\ (PastCheck /\ Downloaded) => raw_before = {}
    /\ (PastCheck /\ raw_before # {}) =>
          /\ raw_dir = raw_before
          /\ pc = "raw_done" => \E i \in 1..Len(fs_ops) : fs_ops[i].op = "warning"
    /\ (LaterRun /\ HeldExtractedFiles(raw_before)) =>
          ~Downloaded /\ raw_dir = raw_before

\* the test of run() sees files only: the warning is logged exactly when the
\* folder holds a file of its own, and then nothing is changed
WarningOnlyWithFileInFolder ==
    pc = "raw_done" =>
       IF get_files_in_cur_dir(raw_before, <<>>) # {}
       THEN /\ fs_ops[Len(fs_ops)].op = "warning"
            /\ ~Downloaded
            /\ raw_dir = raw_before
       ELSE /\ Downloaded
            /\ \A i \in 1..Len(fs_ops) : fs_ops[i].op # "warning"

\* a later run on a folder that holds only the subfolders of an earlier run
\* downloads every archive again, and the renaming does not leave the files
\* as they were
RerunRepeatsAcquisition ==
    (LaterRun /\ pc = "raw_done" /\ HeldExtractedFiles(raw_before)
       /\ get_files_in_cur_dir(raw_before, <<>>) = {}) =>
       /\ \A k \in 1..Len(site) :
             \E i \in 1..Len(fs_ops) :
                fs_ops[i].op = "download" /\ fs_ops[i].name = site[k].name
       /\ (\E k \in 1..Len(site) : \E m \in SeqToSet(site[k].members) :
              EndsWith(m, CSV_EXT)) => raw_dir # raw_before

====
